---- MODULE Spec2Model ----
(***************************************************************************)
(* The spool watcher of src/src/spool/watcher.ts (createSpoolWatcher, the  *)
(* revision at lines 317-559) with the events and dead-letter directories  *)
(* it works on.  The dispatcher, the reader and the writer are imported by *)
(* watcher.ts but are not part of the sources; they follow spec.md 4.3/4.4.*)
(***************************************************************************)
EXTENDS Integers, Sequences, FiniteSets, TLC

\* ------------------------------------------------------------------ bounds
\* number of event ids (files the events directory can hold)
NumIds == 3
\* number of event files producers write while the watcher works
MaxProduced == 2
\* batch invocations that can be past the guard of processQueue at once
MaxBatches == 2
\* start() calls that may be awaiting ensureSpoolEventsDir at once
MaxStarts == 1
\* directory watches that may be open at once
MaxHandles == 1
\* further watches that a start() may open over those (SpecLifecycle)
MaxLeaked == 1
\* stop() calls that may be awaiting watcher.close() at once
MaxStops == 1
\* processExisting() calls that may be awaiting the listing at once
MaxExisting == 1
\* setTimeout timers that may be pending at once
MaxTimers == 2

\* ------------------------------------------------------------- constants
\* spec.md 3: maxRetries defaults to 3 when absent
DefaultMaxRetries == 3

IdNames == <<"e1", "e2", "e3", "e4">>
Ids == {IdNames[i] : i \in 1..NumIds}
ProducerIds == {IdNames[i] : i \in 1..MaxProduced}

\* ------------------------------------------------------------------ paths
\* A path is [dir, name]: dir the directory components below the state
\* directory, name the file name cut into the pieces the code looks at.
SPOOL_SUBDIR == "spool"
EVENTS_SUBDIR == "events"
DEAD_LETTER_SUBDIR == "dead-letter"

resolveSpoolDir == <<SPOOL_SUBDIR>>
resolveSpoolEventsDir == resolveSpoolDir \o <<EVENTS_SUBDIR>>
resolveSpoolDeadLetterDir == resolveSpoolDir \o <<DEAD_LETTER_SUBDIR>>

\* path.join(dir, `${eventId}.json`), eventId given as its name pieces
JoinJsonMutCounter(dir, stem) == [dir |-> dir, name |-> <<"0", ".json">>]
JoinJson(dir, stem) == [dir |-> dir, name |-> stem \o <<".json">>]
resolveSpoolEventPath(eventId) == JoinJson(resolveSpoolEventsDir, <<eventId>>)
resolveSpoolDeadLetterPath(eventId) == JoinJson(resolveSpoolDeadLetterDir, <<eventId>>)

\* names chokidar can report besides events/{id}.json
TempPath(id) == [dir |-> resolveSpoolEventsDir, name |-> <<id, ".json", ".tmp.", "4711">>]
NestedPath(id) == [dir |-> resolveSpoolEventsDir \o <<"sub">>, name |-> <<id, ".json">>]
TempJsonPath(id) == [dir |-> resolveSpoolEventsDir, name |-> <<id, ".json", ".tmp.", "4711", ".json">>]
TextPath == [dir |-> resolveSpoolEventsDir, name |-> <<"notes", ".txt">>]

EventPaths == {resolveSpoolEventPath(id) : id \in Ids}
NoisePaths == {TempPath(IdNames[1])}
AllNoisePaths == {TempPath(IdNames[1]), TempJsonPath(IdNames[1]), TextPath}
NestedPaths == {NestedPath(IdNames[1])}
AllPaths == EventPaths \cup NoisePaths \cup NestedPaths

\* path.basename(filePath)
Basename(p) == p.name
\* filename.endsWith(".json")
EndsWithJson(name) == Len(name) > 0 /\ name[Len(name)] = ".json"
\* filename.includes(".json.tmp.")
IncludesJsonTmp(name) == \E i \in 1..(Len(name) - 1) : name[i] = ".json" /\ name[i + 1] = ".tmp."
\* filename.replace(/\.json$/, "")
StripJson(name) == IF EndsWithJson(name) THEN SubSeq(name, 1, Len(name) - 1) ELSE name

IsCandidateMutTmp(p) == EndsWithJson(Basename(p))
IsCandidate(p) == EndsWithJson(Basename(p)) /\ ~IncludesJsonTmp(Basename(p))

\* ------------------------------------------------- validation (schema.ts)
\* A JSON value is the text of its literal; Missing is a key that is not there.
Missing == "missing"
UuidText == "'123e4567-e89b-12d3-a456-426614174000'"
IsoText == "'2026-01-01T00:00:00Z'"
JsonStrings == {"''", "'hi'", "'agentTurn'", "'high'", UuidText, IsoText}
JsonNumbers == {"0", "1", "2", "3", "10", "-1", "1.5"}
JsonBooleans == {"true", "false"}
IsInt(v) == v \in JsonNumbers \ {"1.5"}
AtLeastZero(v) == v \in JsonNumbers \ {"-1"}
IsPositive(v) == v \in JsonNumbers \ {"-1", "0"}
IsUuid(v) == v = UuidText
IsDatetime(v) == v = IsoText
NonEmpty(v) == v \in JsonStrings \ {"''"}

Issue(path, message) == [path |-> path, message |-> message]
Required(path) == <<Issue(path, "Required")>>
\* .optional()
Optional(v, issues) == IF v = Missing THEN <<>> ELSE issues
\* .strict(): one issue at the object's path that names the unknown keys
StrictMutStrip(path, unknown) == <<>>
Strict(path, unknown) ==
  IF unknown = {} THEN <<>> ELSE <<[path |-> path, message |-> "Unrecognized key(s)", keys |-> unknown]>>

zString(v, path) ==
  IF v = Missing THEN Required(path)
  ELSE IF v \notin JsonStrings THEN <<Issue(path, "Expected string")>> ELSE <<>>
zBoolean(v, path) ==
  IF v = Missing THEN Required(path)
  ELSE IF v \notin JsonBooleans THEN <<Issue(path, "Expected boolean")>> ELSE <<>>
zLiteral(v, lit, path) ==
  IF v = Missing THEN Required(path)
  ELSE IF v # lit THEN <<Issue(path, "Invalid literal value")>> ELSE <<>>
\* z.number().int().min(0)
zCountMutAny(v, path) == <<>>
zCount(v, path) ==
  IF v = Missing THEN Required(path)
  ELSE IF v \notin JsonNumbers THEN <<Issue(path, "Expected number")>>
  ELSE (IF IsInt(v) THEN <<>> ELSE <<Issue(path, "Expected integer")>>)
       \o (IF AtLeastZero(v) THEN <<>> ELSE <<Issue(path, "Number must be greater than or equal to 0")>>)
\* z.number().int().positive()
zPositiveInt(v, path) ==
  IF v = Missing THEN Required(path)
  ELSE IF v \notin JsonNumbers THEN <<Issue(path, "Expected number")>>
  ELSE (IF IsInt(v) THEN <<>> ELSE <<Issue(path, "Expected integer")>>)
       \o (IF IsPositive(v) THEN <<>> ELSE <<Issue(path, "Number must be greater than 0")>>)
zUuid(v, path) ==
  IF zString(v, path) # <<>> THEN zString(v, path)
  ELSE IF IsUuid(v) THEN <<>> ELSE <<Issue(path, "id must be a valid UUID")>>
zDatetime(v, path, message) ==
  IF zString(v, path) # <<>> THEN zString(v, path)
  ELSE IF IsDatetime(v) THEN <<>> ELSE <<Issue(path, message)>>
zMessage(v, path) ==
  IF zString(v, path) # <<>> THEN zString(v, path)
  ELSE IF NonEmpty(v) THEN <<>> ELSE <<Issue(path, "message is required")>>

spoolPrioritySchema(v, path) ==
  IF v = Missing THEN Required(path)
  ELSE IF v \in {"'low'", "'normal'", "'high'", "'critical'"} THEN <<>>
  ELSE <<Issue(path, "Invalid enum value")>>

spoolDeliverySchema(d, path) ==
  IF ~d.present THEN Required(path)
  ELSE Optional(d.enabled, zBoolean(d.enabled, path \o <<"enabled">>))
       \o Optional(d.channel, zString(d.channel, path \o <<"channel">>))
       \o Optional(d.to, zString(d.to, path \o <<"to">>))
       \o Strict(path, d.unknown)

spoolAgentTurnPayloadSchema(p, path) ==
  IF ~p.present THEN Required(path)
  ELSE zLiteral(p.kind, "'agentTurn'", path \o <<"kind">>)
       \o zMessage(p.message, path \o <<"message">>)
       \o Optional(p.agentId, zString(p.agentId, path \o <<"agentId">>))
       \o (IF p.delivery.present THEN spoolDeliverySchema(p.delivery, path \o <<"delivery">>) ELSE <<>>)
       \o Strict(path, p.unknown)

spoolPayloadSchema(p, path) == spoolAgentTurnPayloadSchema(p, path)

spoolEventSchema(data) ==
  IF ~data.present THEN <<Issue(<<>>, "Expected object")>>
  ELSE zLiteral(data.version, "1", <<"version">>)
       \o zUuid(data.id, <<"id">>)
       \o zDatetime(data.createdAt, <<"createdAt">>, "createdAt must be ISO 8601")
       \o zPositiveInt(data.createdAtMs, <<"createdAtMs">>)
       \o Optional(data.priority, spoolPrioritySchema(data.priority, <<"priority">>))
       \o Optional(data.maxRetries, zCount(data.maxRetries, <<"maxRetries">>))
       \o Optional(data.retryCount, zCount(data.retryCount, <<"retryCount">>))
       \o Optional(data.expiresAt, zDatetime(data.expiresAt, <<"expiresAt">>, "Invalid datetime"))
       \o spoolPayloadSchema(data.payload, <<"payload">>)
       \o Strict(<<>>, data.unknown)

RECURSIVE SetToSeq(_)
SetToSeq(S) == IF S = {} THEN <<>> ELSE LET x == CHOOSE y \in S : TRUE IN <<x>> \o SetToSeq(S \ {x})

\* `${i.path.join(".")}: ${i.message}`; the message of an unrecognized-keys issue
\* names the keys
RECURSIVE Dotted(_)
Dotted(path) ==
  IF Len(path) <= 1 THEN path ELSE <<path[1], ".">> \o Dotted(Tail(path))

IssueText(i) ==
  Dotted(i.path) \o <<": ", i.message>> \o (IF "keys" \in DOMAIN i THEN SetToSeq(i.keys) ELSE <<>>)

\* issues.map(...).join("; "): the error string, as the sequence of its pieces
RECURSIVE JoinIssues(_)
JoinIssues(issues) ==
  IF Len(issues) = 0 THEN <<>>
  ELSE IF Len(issues) = 1 THEN IssueText(issues[1])
  ELSE IssueText(issues[1]) \o <<"; ">> \o JoinIssues(Tail(issues))

validateSpoolEvent(data) ==
  IF spoolEventSchema(data) = <<>>
    THEN [valid |-> TRUE, event |-> data]
    ELSE [valid |-> FALSE, error |-> JoinIssues(spoolEventSchema(data))]

\* spoolEventCreateSchema: the keys of spoolEventSchema it does not declare are
\* unknown keys to its .strict()
SystemAssigned == {"id", "createdAt", "createdAtMs", "retryCount"}
CreateUnknownMutOwn(data) == data.unknown
CreateUnknown(data) == data.unknown \cup {k \in SystemAssigned : data[k] # Missing}

spoolEventCreateSchema(data) ==
  IF ~data.present THEN <<Issue(<<>>, "Expected object")>>
  ELSE zLiteral(data.version, "1", <<"version">>)
       \o Optional(data.priority, spoolPrioritySchema(data.priority, <<"priority">>))
       \o Optional(data.maxRetries, zCount(data.maxRetries, <<"maxRetries">>))
       \o Optional(data.expiresAt, zDatetime(data.expiresAt, <<"expiresAt">>, "Invalid datetime"))
       \o spoolPayloadSchema(data.payload, <<"payload">>)
       \o Strict(<<>>, CreateUnknown(data))

validateSpoolEventCreate(data) ==
  IF spoolEventCreateSchema(data) = <<>>
    THEN [valid |-> TRUE, create |-> data]
    ELSE [valid |-> FALSE, error |-> JoinIssues(spoolEventCreateSchema(data))]

\* ------------------------------------------------------------ event files
\* A file is a record: no file at all, one that fails parsing or validation, or an
\* event with the fields the queue reads.  An absent count is NoCount.
NoFile == [kind |-> "none"]
Malformed == [kind |-> "malformed"]
NoCount == 0 - 1
Priorities == {"low", "normal", "high", "critical"}
Absent == "absent"

\* spec.md 4.3: critical > high > normal > low, absent ranks as normal
PriorityRank(p) ==
  CASE p = "critical" -> 3
    [] p = "high" -> 2
    [] p = "low" -> 0
    [] OTHER -> 1

RetryCountOf(f) == IF f.retryCount = NoCount THEN 0 ELSE f.retryCount
MaxRetriesOf(f) == IF f.maxRetries = NoCount THEN DefaultMaxRetries ELSE f.maxRetries

IsFile(f) == f.kind # "none"
\* validateSpoolEvent on the parsed file, as far as the watcher depends on it
IsValidFile(f) == f.kind = "event"

VARIABLES
  events,        \* events directory: id -> file content or NoFile
  deadLetter,    \* dead-letter directory: the ids with a file in it
  passed,        \* ids whose expiresAt instant has passed
  fsEvents,      \* event paths with an add/change chokidar has not delivered yet
  watcher,       \* the watcher variable: 0 for null, else a handle
  openHandles,   \* the chokidar watches that are open
  running,
  processing,
  pendingFiles,
  processTimer,  \* "null", "live" (pending timeout) or "dead" (id of a fired or cleared timeout)
  armedTimers,   \* number of pending timeouts
  startCalls,    \* start() calls awaiting ensureSpoolEventsDir
  stopCalls,     \* stop() calls awaiting watcher.close(): handle -> count
  existingCalls, \* processExisting() calls awaiting listSpoolEvents
  batches,       \* processQueue invocations past the guard: slot -> record
  lastResult,    \* the SpoolDispatchResult this step handed to onEvent (NoResult: none)
  caught,        \* what the catch of the timer callback got in this step ("none": nothing)
  returned,      \* the call of the public interface that settled in this step ("none": none)
  outcomes,      \* id -> terminal outcomes the dispatcher has given it
  gatewayHandle, \* state.handle of the gateway service: "null" or "set"
  executions     \* id -> executor invocations counted for it, and the file the first one read

diskVars == <<events, deadLetter, passed, outcomes>>
lifeVars == <<watcher, openHandles, running, startCalls, stopCalls>>
queueVars == <<processing, pendingFiles, processTimer, armedTimers, batches, existingCalls>>
vars == <<events, deadLetter, passed, fsEvents, watcher, openHandles, running, processing,
          pendingFiles, processTimer, armedTimers, startCalls, stopCalls, existingCalls,
          batches, lastResult, caught, returned, outcomes, gatewayHandle, executions>>

Slots == 1..MaxBatches
NumHandles == MaxHandles + MaxLeaked
Handles == 1..NumHandles

IdleBatch == [phase |-> "idle"]
NoResult == [status |-> "none"]

Init ==
  /\ events = [id \in Ids |-> NoFile]
  /\ deadLetter = {}
  /\ passed = {}
  /\ fsEvents = {}
  /\ watcher = 0
  /\ openHandles = {}
  /\ running = FALSE
  /\ processing = FALSE
  /\ pendingFiles = {}
  /\ processTimer = "null"
  /\ armedTimers = 0
  /\ startCalls = 0
  /\ stopCalls = [h \in Handles |-> 0]
  /\ existingCalls = 0
  /\ batches = [s \in Slots |-> IdleBatch]
  /\ lastResult = NoResult
  /\ caught = "none"
  /\ returned = "none"
  /\ outcomes = [id \in Ids |-> {}]
  /\ gatewayHandle = "null"
  /\ executions = [id \in Ids |-> [count |-> 0, first |-> NoFile]]


\* ------------------------------------------------------- scheduleProcessing
\* clearTimeout on the timer the variable refers to, then a fresh setTimeout
ScheduleClearsMutNone == Cardinality({})
ScheduleClears == IF processTimer = "live" THEN 1 ELSE 0
ScheduleProcessing ==
  /\ armedTimers - ScheduleClears < MaxTimers
  /\ armedTimers' = armedTimers - ScheduleClears + 1
  /\ processTimer' = "live"

\* ------------------------------------------------------------ start / stop
AnyOpen == openHandles # {}
\* a handle nothing refers to any more can stand for a new watch
UnusedHandles == {h \in Handles : h \notin openHandles /\ stopCalls[h] = 0 /\ watcher # h}
FreeHandle == CHOOSE h \in UnusedHandles : \A g \in UnusedHandles : h <= g

\* start(): `if (running) return`
StartGuardMutNever == FALSE
StartGuard == running

\* start(), up to its await of ensureSpoolEventsDir()
StartCallSteps ==
  /\ startCalls < MaxStarts
  /\ IF StartGuard
       THEN UNCHANGED <<running, startCalls>>
       ELSE running' = TRUE /\ startCalls' = startCalls + 1
  /\ lastResult' = NoResult
  /\ caught' = "none"
  /\ returned' = IF StartGuard THEN "start early" ELSE "none"
  /\ UNCHANGED <<events, deadLetter, passed, fsEvents, watcher, openHandles, processing,
                 pendingFiles, processTimer, armedTimers, stopCalls, existingCalls, batches,
                 outcomes>>

StartCall == StartCallSteps /\ UNCHANGED <<gatewayHandle, executions>>

\* start() after the await: chokidar.watch() opens a watch and the handlers are
\* registered; with ignoreInitial false every file present is reported as an add
StartResumeSteps ==
  /\ startCalls > 0
  /\ UnusedHandles # {}
  /\ startCalls' = startCalls - 1
  /\ watcher' = FreeHandle
  /\ openHandles' = openHandles \cup {FreeHandle}
  /\ fsEvents' = fsEvents \cup {resolveSpoolEventPath(id) : id \in {i \in Ids : IsFile(events[i])}}
  /\ lastResult' = NoResult
  /\ caught' = "none"
  /\ returned' = "start"
  /\ UNCHANGED <<events, deadLetter, passed, running, processing, pendingFiles, processTimer,
                 armedTimers, stopCalls, existingCalls, batches, outcomes>>

\* the watches open at once kept within MaxHandles
WithinHandles == Cardinality(openHandles) < MaxHandles

StartResume == WithinHandles /\ StartResumeSteps /\ UNCHANGED <<gatewayHandle, executions>>
\* any start() settling, also one that finds a watch open
StartResumeAny == StartResumeSteps /\ UNCHANGED <<gatewayHandle, executions>>

\* start() after the await, ensureSpoolEventsDir() or chokidar.watch() throwing;
\* the catch: running = false
StartFailRunningMutKeep == running
StartFailRunning == FALSE
StartFailSteps ==
  /\ startCalls > 0
  /\ startCalls' = startCalls - 1
  /\ running' = StartFailRunning
  /\ watcher' = 0
  /\ lastResult' = NoResult
  /\ caught' = "none"
  /\ returned' = "start rejected"
  /\ UNCHANGED <<events, deadLetter, passed, fsEvents, openHandles, processing, pendingFiles,
                 processTimer, armedTimers, stopCalls, existingCalls, batches, outcomes>>

StartFail == StartFailSteps /\ UNCHANGED <<gatewayHandle, executions>>

StopsInFlight == LET Sum[n \in 0..NumHandles] == IF n = 0 THEN 0 ELSE Sum[n - 1] + stopCalls[n] IN Sum[NumHandles]

\* stop(), up to its await of watcher.close()
StopCallSteps ==
  /\ StopsInFlight < MaxStops
  /\ IF ~running
       THEN UNCHANGED <<running, processTimer, armedTimers, stopCalls>>
       ELSE /\ running' = FALSE
            /\ IF processTimer # "null"
                 THEN processTimer' = "null" /\ armedTimers' = armedTimers - ScheduleClears
                 ELSE UNCHANGED <<processTimer, armedTimers>>
            /\ IF watcher # 0
                 THEN stopCalls' = [stopCalls EXCEPT ![watcher] = @ + 1]
                 ELSE UNCHANGED stopCalls
  /\ lastResult' = NoResult
  /\ caught' = "none"
  /\ returned' = IF ~running THEN "stop early" ELSE IF watcher = 0 THEN "stop" ELSE "none"
  /\ UNCHANGED <<events, deadLetter, passed, fsEvents, watcher, openHandles, processing,
                 pendingFiles, startCalls, existingCalls, batches, outcomes>>

StopCall == StopCallSteps /\ UNCHANGED <<gatewayHandle, executions>>

\* stop() after the await: the watch is closed, then watcher = null
StopResumeSteps(h) ==
  /\ stopCalls[h] > 0
  /\ stopCalls' = [stopCalls EXCEPT ![h] = @ - 1]
  /\ openHandles' = openHandles \ {h}
  /\ watcher' = 0
  /\ fsEvents' = IF openHandles \ {h} = {} THEN {} ELSE fsEvents
  /\ lastResult' = NoResult
  /\ caught' = "none"
  /\ returned' = "stop"
  /\ UNCHANGED <<events, deadLetter, passed, running, processing, pendingFiles, processTimer,
                 armedTimers, startCalls, existingCalls, batches, outcomes>>

StopResume(h) == StopResumeSteps(h) /\ UNCHANGED <<gatewayHandle, executions>>

\* ------------------------------------------------- gateway service (part_001)
\* startGatewaySpoolWatcher (spool enabled): await state.watcher.start(), then
\* state.handle = {...}; the assignment runs as start() settles, and not at all
\* when start() rejects
StartGatewayCall ==
  /\ StartCallSteps
  /\ gatewayHandle' = IF StartGuard THEN "set" ELSE gatewayHandle
  /\ UNCHANGED executions
StartGatewayResume ==
  WithinHandles /\ StartResumeSteps /\ gatewayHandle' = "set" /\ UNCHANGED executions
StartGatewayFail == StartFailSteps /\ UNCHANGED <<gatewayHandle, executions>>
\* stopGatewaySpoolWatcher: await state.watcher.stop(), then state.handle = null
StopGatewayCall ==
  /\ StopCallSteps
  /\ gatewayHandle' = IF ~running \/ watcher = 0 THEN "null" ELSE gatewayHandle
  /\ UNCHANGED executions
StopGatewayResume(h) == StopResumeSteps(h) /\ gatewayHandle' = "null" /\ UNCHANGED executions

\* ------------------------------------------------------------ notifications
\* if (!running) return;
HandlerIgnoresMutNever == running /\ ~running
HandlerIgnores == ~running

\* the "add" and "change" handlers (the two have the same body)
OnAddChange(filePath) ==
  /\ IF HandlerIgnores
       THEN UNCHANGED <<pendingFiles, processTimer, armedTimers>>
       ELSE pendingFiles' = pendingFiles \cup {filePath} /\ ScheduleProcessing
  /\ lastResult' = NoResult
  /\ caught' = "none"
  /\ returned' = IF HandlerIgnores THEN "notification ignored" ELSE "none"
  /\ UNCHANGED <<events, deadLetter, passed, watcher, openHandles, running, processing,
                 startCalls, stopCalls, existingCalls, batches, outcomes>>
  /\ UNCHANGED <<gatewayHandle, executions>>

\* chokidar reports an event file that was written or rewritten
NotifyEvent(p) ==
  /\ AnyOpen
  /\ p \in fsEvents
  /\ fsEvents' = fsEvents \ {p}
  /\ OnAddChange(p)

\* chokidar reports some other file below the events directory
NotifyOther(p) ==
  /\ AnyOpen
  /\ UNCHANGED fsEvents
  /\ OnAddChange(p)

\* the "error" handler: a log line
OnError ==
  /\ AnyOpen
  /\ lastResult' = NoResult
  /\ caught' = "none"
  /\ returned' = "none"
  /\ UNCHANGED <<events, deadLetter, passed, fsEvents, watcher, openHandles, running,
                 processing, pendingFiles, processTimer, armedTimers, startCalls, stopCalls,
                 existingCalls, batches, outcomes>>
  /\ UNCHANGED <<gatewayHandle, executions>>


\* ---------------------------------------------------- reader (spec.md 4.3)
\* one entry of listSpoolEvents(): the fields of the event the watcher and the order use
Listed(id) == [id |-> id, rank |-> PriorityRank(events[id].priority), createdAtMs |-> events[id].createdAtMs]
ValidIds == {id \in Ids : IsValidFile(events[id])}

\* a before b in the listing: priority descending, then createdAtMs ascending
ListBeforeMutAsc(a, b) == a.rank < b.rank \/ (a.rank = b.rank /\ a.createdAtMs <= b.createdAtMs)
ListBefore(a, b) == a.rank > b.rank \/ (a.rank = b.rank /\ a.createdAtMs <= b.createdAtMs)

IsSortedListing(seq) == \A i, j \in 1..Len(seq) : i < j => ListBefore(seq[i], seq[j])

\* the sequences over a set of ids, each id once
RECURSIVE Perms(_)
Perms(S) == IF S = {} THEN {<<>>} ELSE UNION {{<<x>> \o t : t \in Perms(S \ {x})} : x \in S}

\* listSpoolEvents(): the valid events present, sorted (events equal in both keys in any order)
listSpoolEvents == {seq \in {[i \in 1..Len(q) |-> Listed(q[i])] : q \in Perms(ValidIds)} : IsSortedListing(seq)}

\* ------------------------------------------------ dispatcher (spec.md 4.4)
\* the file a path names, as the dispatcher reads it
FileAt(p) ==
  IF p \in EventPaths THEN events[CHOOSE id \in Ids : resolveSpoolEventPath(id) = p] ELSE NoFile

\* eventId of the result: the file name without its suffix
EventIdOf(p) == StripJson(Basename(p))

IsExpired(f, id) == f.expiresAt # Absent /\ id \in passed

ExecOutcomes == {"ok", "fail", "throw"}

\* step 5: the retry count after one more executor failure
IncrementRetryMutKeep(f) == RetryCountOf(f)
IncrementRetry(f) == RetryCountOf(f) + 1

\* step 5: relocate when the new count has reached maxRetries
RetryExhaustedMutGt(f) == IncrementRetry(f) > MaxRetriesOf(f)
RetryExhausted(f) == IncrementRetry(f) >= MaxRetriesOf(f)

\* What one dispatch does, from the file it read (snap), whether its expiry had
\* passed and how the executor ended: the result's status, whether the executor
\* was invoked, and the operation on the file.
\* step 1, the file failing validation: relocate, status error
InvalidPlanMutKeep == [status |-> "error", executor |-> "none", fileOp |-> "none"]
InvalidPlan == [status |-> "error", executor |-> "none", fileOp |-> "deadLetter"]
\* step 2, expiresAt passed: delete, status expired
ExpiredPlanMutDeadLetter == [status |-> "expired", executor |-> "none", fileOp |-> "deadLetter"]
ExpiredPlan == [status |-> "expired", executor |-> "none", fileOp |-> "delete"]

DispatchPlan(snap, expired, exec) ==
  IF ~IsFile(snap) THEN [status |-> "error", executor |-> "none", fileOp |-> "none"]
  ELSE IF ~IsValidFile(snap) THEN InvalidPlan
  ELSE IF expired THEN ExpiredPlan
  ELSE IF exec = "ok" THEN [status |-> "ok", executor |-> exec, fileOp |-> "delete"]
  ELSE IF exec = "throw" THEN [status |-> "thrown", executor |-> exec, fileOp |-> "none"]
  ELSE IF RetryExhausted(snap) THEN [status |-> "error", executor |-> exec, fileOp |-> "deadLetter"]
  ELSE [status |-> "error", executor |-> exec, fileOp |-> "rewrite"]

\* the store's single-file operations on events/{id}.json; deleting or relocating
\* a file that is no longer there does nothing, rewriting writes the file anew
ApplyFileOp(id, snap, op) ==
  /\ events' = [events EXCEPT ![id] =
                  IF op = "rewrite" THEN [snap EXCEPT !.retryCount = IncrementRetry(snap)]
                  ELSE IF op \in {"delete", "deadLetter"} THEN NoFile
                  ELSE @]
  /\ deadLetter' = IF op = "deadLetter" /\ IsFile(events[id]) THEN deadLetter \cup {id} ELSE deadLetter
  /\ outcomes' = [outcomes EXCEPT ![id] =
                    IF op = "delete" /\ IsFile(events[id]) THEN @ \cup {"deleted"}
                    ELSE IF op = "deadLetter" /\ IsFile(events[id]) THEN @ \cup {"deadLetter"}
                    ELSE @]
  /\ fsEvents' = IF op = "rewrite" /\ AnyOpen THEN fsEvents \cup {resolveSpoolEventPath(id)}
                 ELSE IF op \in {"delete", "deadLetter"} THEN fsEvents \ {resolveSpoolEventPath(id)}
                 ELSE fsEvents


\* ------------------------------------------------------------ processQueue
\* if (processing || !running) return
ProcessQueueGuardMutNoFlag == running
ProcessQueueGuard == ~processing /\ running

IdleSlots == {s \in Slots : batches[s].phase = "idle"}
FreeSlot == CHOOSE s \in IdleSlots : \A t \in IdleSlots : s <= t

\* the capture loop over pendingFiles
CapturedPaths == {p \in pendingFiles : IsCandidate(p)}
CapturedIds == {StripJson(Basename(p)) : p \in CapturedPaths}

\* pendingFiles after the capture loop: the loop removes nothing
PendingAfterCaptureMutClear == {}
PendingAfterCapture == pendingFiles

\* skipped: the paths the capture loop passed over, noted while the batch awaits
\* the listing
NewBatch ==
  [phase |-> "listing", capturedPaths |-> CapturedPaths, pendingIds |-> CapturedIds,
   sortedEvents |-> <<>>, idx |-> 0, inWalk |-> TRUE, processedIds |-> {}, visited |-> {},
   cur |-> NoFile, order |-> <<>>, skipped |-> pendingFiles \ CapturedPaths]

\* the debounce timer fires and its callback runs processQueue() up to the await of
\* listSpoolEvents(); cfgOk is whether loadConfig() returns
TimerFire(referenced, cfgOk) ==
  /\ IF referenced THEN processTimer = "live" ELSE armedTimers > ScheduleClears
  /\ armedTimers' = armedTimers - 1
  /\ processTimer' = IF referenced THEN "dead" ELSE processTimer
  /\ IF ~ProcessQueueGuard
       THEN UNCHANGED <<processing, batches>>
       ELSE IF CapturedIds = {} \/ ~cfgOk
         THEN UNCHANGED <<processing, batches>>
         ELSE /\ IdleSlots # {}
              /\ processing' = TRUE
              /\ batches' = [batches EXCEPT ![FreeSlot] = NewBatch]
  /\ lastResult' = NoResult
  /\ caught' = IF ProcessQueueGuard /\ CapturedIds # {} /\ ~cfgOk THEN "loadConfig" ELSE "none"
  /\ returned' = "none"
  /\ pendingFiles' = IF ProcessQueueGuard THEN PendingAfterCapture ELSE pendingFiles
  /\ UNCHANGED <<events, deadLetter, passed, fsEvents, watcher, openHandles, running, startCalls, stopCalls, existingCalls, outcomes>>
  /\ UNCHANGED <<gatewayHandle, executions>>

\* the dispatcher is called for filePath and reads the file
DispatchCall(b, filePath, pass) ==
  [b EXCEPT !.phase = "dispatch",
            !.cur = [path |-> filePath, pass |-> pass, snap |-> FileAt(filePath),
                     expired |-> IsValidFile(FileAt(filePath))
                                 /\ \E id \in Ids : resolveSpoolEventPath(id) = filePath
                                                    /\ IsExpired(FileAt(filePath), id)]]

\* the next entry of sortedEvents the walk dispatches: the first one after idx
\* whose id is among the captured ids
WalkHits(b) == {j \in (b.idx + 1)..Len(b.sortedEvents) : <<b.sortedEvents[j].id>> \in b.pendingIds}
WalkNextMutLast(b) == CHOOSE j \in WalkHits(b) : \A k \in WalkHits(b) : j >= k
WalkNext(b) == CHOOSE j \in WalkHits(b) : \A k \in WalkHits(b) : j <= k

\* the captured ids the second loop has still to visit and does not skip
ReconcileLeftMutNone(b) == b.pendingIds \ b.pendingIds
ReconcileLeftMutAll(b) == b.pendingIds \ b.visited
ReconcileLeft(b) == b.pendingIds \ (b.visited \cup b.processedIds)

\* if (!running) break, at the top of each iteration of both loops
\* The two loops from where the batch stands to the next dispatch call: the set of
\* batch records at that call, empty when the loops end (or break on !running).
LoopBreakMutNever == running /\ ~running
LoopBreak == ~running
NextDispatches(b) ==
  IF LoopBreak THEN {}
  ELSE IF b.inWalk /\ WalkHits(b) # {}
    THEN {DispatchCall([b EXCEPT !.idx = WalkNext(b),
                                 !.processedIds = @ \cup {<<b.sortedEvents[WalkNext(b)].id>>}],
                       JoinJson(resolveSpoolEventsDir, <<b.sortedEvents[WalkNext(b)].id>>), "walk")}
    ELSE {DispatchCall([b EXCEPT !.inWalk = FALSE, !.visited = @ \cup {eventId}],
                       JoinJson(resolveSpoolEventsDir, eventId), "reconcile")
            : eventId \in ReconcileLeft(b)}

\* finally: if (pendingFiles.size > 0) scheduleProcessing()
\* the loops run on to the next dispatch call, or the finally block runs
FinallyRearmsMutNever(pending) == pending # pending
FinallyRearms(pending) == pending # {}
BatchFinally(s, pending) ==
  /\ batches' = [batches EXCEPT ![s] = IdleBatch]
  /\ processing' = FALSE
  /\ IF FinallyRearms(pending) THEN ScheduleProcessing ELSE UNCHANGED <<processTimer, armedTimers>>

BatchContinue(s, b, pending) ==
  IF NextDispatches(b) # {}
    THEN /\ \E nb \in NextDispatches(b) : batches' = [batches EXCEPT ![s] = nb]
         /\ UNCHANGED <<processing, processTimer, armedTimers>>
    ELSE BatchFinally(s, pending)

\* for (const filePath of capturedPaths) pendingFiles.delete(filePath)
\* listSpoolEvents() resolves: the captured paths leave pendingFiles and the walk starts
PendingAfterLoadMutLive(b) == pendingFiles \ {p \in pendingFiles : IsCandidate(p)}
PendingAfterLoad(b) == pendingFiles \ b.capturedPaths
ListResolve(s) ==
  /\ batches[s].phase = "listing"
  /\ \E seq \in listSpoolEvents :
       /\ pendingFiles' = PendingAfterLoad(batches[s])
       /\ BatchContinue(s, [batches[s] EXCEPT !.sortedEvents = seq, !.skipped = {}],
                        PendingAfterLoad(batches[s]))
  /\ lastResult' = NoResult
  /\ caught' = "none"
  /\ returned' = "none"
  /\ UNCHANGED <<events, deadLetter, passed, fsEvents, watcher, openHandles, running,
                 startCalls, stopCalls, existingCalls, outcomes>>
  /\ UNCHANGED <<gatewayHandle, executions>>

\* listSpoolEvents() rejects: processing = false and the error leaves processQueue
LoadCatchProcessingMutKeep == processing
LoadCatchProcessing == FALSE
ListReject(s) ==
  /\ batches[s].phase = "listing"
  /\ processing' = LoadCatchProcessing
  /\ batches' = [batches EXCEPT ![s] = IdleBatch]
  /\ lastResult' = NoResult
  /\ caught' = "listSpoolEvents"
  /\ returned' = "none"
  /\ UNCHANGED <<events, deadLetter, passed, fsEvents, watcher, openHandles, running,
                 pendingFiles, processTimer, armedTimers, startCalls, stopCalls,
                 existingCalls, outcomes>>
  /\ UNCHANGED <<gatewayHandle, executions>>


\* the id whose file a dispatched path names (a stale or foreign path names none)
PathIds(p) == {id \in Ids : resolveSpoolEventPath(id) = p}

\* what the batch notes of one dispatch: the path, the pass, and the listing entry
OrderEntry(b) ==
  [path |-> b.cur.path, pass |-> b.cur.pass, valid |-> IsValidFile(b.cur.snap),
   rank |-> IF IsValidFile(b.cur.snap) THEN PriorityRank(b.cur.snap.priority) ELSE 0,
   createdAtMs |-> IF IsValidFile(b.cur.snap) THEN b.cur.snap.createdAtMs ELSE 0]

\* onEvent?.(result), after the logging that depends on result.status; a call that
\* threw is marked by status "thrown" and hands nothing to onEvent
OnEventMutErrorsOnly(result) == IF result.status \in {"error", "thrown"} THEN result ELSE NoResult
OnEvent(result) == result

\* the try around each dispatch and its onEvent call has a catch that logs
LoopCatchesMutEscapes == FALSE
LoopCatches == TRUE

\* dispatchSpoolEventFile() settles (exec: how the executor ended, if it is invoked);
\* the watcher logs, hands the result to onEvent (observer: whether that call
\* returns or throws) and runs on to the next dispatch
SettleSteps(s, exec, observer) ==
  /\ batches[s].phase = "dispatch"
  /\ LET b == batches[s]
         plan == DispatchPlan(b.cur.snap, b.cur.expired, exec)
     IN /\ (plan.executor = "none" => exec = "ok")
        /\ (observer = "throws" => plan.status # "thrown")
        /\ IF PathIds(b.cur.path) # {}
             THEN ApplyFileOp(CHOOSE id \in PathIds(b.cur.path) : TRUE, b.cur.snap, plan.fileOp)
             ELSE UNCHANGED <<events, deadLetter, outcomes, fsEvents>>
        /\ lastResult' = OnEvent([status |-> plan.status, eventId |-> EventIdOf(b.cur.path),
                                  executor |-> plan.executor, fileOp |-> plan.fileOp,
                                  snap |-> b.cur.snap, expired |-> b.cur.expired])
        /\ caught' = IF observer = "throws" THEN "onEvent" ELSE "none"
        /\ returned' = "none"
        /\ IF observer = "throws" /\ ~LoopCatches
             THEN BatchFinally(s, pendingFiles)
             ELSE BatchContinue(s, [b EXCEPT !.order = Append(@, OrderEntry(b)), !.cur = NoFile],
                                pendingFiles)
  /\ UNCHANGED <<passed, watcher, openHandles, running, pendingFiles, startCalls, stopCalls,
                 existingCalls>>
  /\ UNCHANGED gatewayHandle

DispatchSettleSteps(s, exec) == SettleSteps(s, exec, "returns")

DispatchSettle(s, exec) == DispatchSettleSteps(s, exec) /\ UNCHANGED executions

\* the same with an observer callback that may throw
DispatchSettleObserved(s, exec, observer) == SettleSteps(s, exec, observer) /\ UNCHANGED executions

\* the dispatch that settles invoked the executor (spec.md 4.4 step 3): one more
\* invocation for the event, and the file as the first invocation read it
CountExecution(id, snap) ==
  [executions EXCEPT ![id] = [count |-> @.count + 1,
                              first |-> IF @.count = 0 THEN snap ELSE @.first]]

DispatchSettleCounted(s, exec) ==
  /\ DispatchSettleSteps(s, exec)
  /\ executions' =
       IF lastResult'.executor # "none" /\ PathIds(batches[s].cur.path) # {}
         THEN CountExecution(CHOOSE id \in PathIds(batches[s].cur.path) : TRUE,
                             batches[s].cur.snap)
         ELSE executions

\* --------------------------------------------------------- processExisting
\* processExisting(), up to its await of listSpoolEvents()
ExistingCall ==
  /\ existingCalls < MaxExisting
  /\ existingCalls' = IF running THEN existingCalls + 1 ELSE existingCalls
  /\ lastResult' = NoResult
  /\ caught' = "none"
  /\ returned' = IF running THEN "none" ELSE "processExisting early"
  /\ UNCHANGED <<events, deadLetter, passed, fsEvents, watcher, openHandles, running,
                 processing, pendingFiles, processTimer, armedTimers, startCalls, stopCalls,
                 batches, outcomes>>
  /\ UNCHANGED <<gatewayHandle, executions>>

\* for (const event of events) pendingFiles.add(path.join(eventsDir, `${event.id}.json`))
\* processExisting() after the await: every listed event's path joins pendingFiles
ExistingPathsMutFirst == {JoinJson(resolveSpoolEventsDir, <<id>>) : id \in ValidIds \cap {IdNames[1]}}
ExistingPaths == {JoinJson(resolveSpoolEventsDir, <<id>>) : id \in ValidIds}
ExistingResume ==
  /\ existingCalls > 0
  /\ existingCalls' = existingCalls - 1
  /\ pendingFiles' = pendingFiles \cup ExistingPaths
  /\ IF pendingFiles \cup ExistingPaths # {}
       THEN ScheduleProcessing
       ELSE UNCHANGED <<processTimer, armedTimers>>
  /\ lastResult' = NoResult
  /\ caught' = "none"
  /\ returned' = "processExisting"
  /\ UNCHANGED <<events, deadLetter, passed, fsEvents, watcher, openHandles, running,
                 processing, startCalls, stopCalls, batches, outcomes>>
  /\ UNCHANGED <<gatewayHandle, executions>>

\* processExisting() with listSpoolEvents() rejecting
ExistingReject ==
  /\ existingCalls > 0
  /\ existingCalls' = existingCalls - 1
  /\ lastResult' = NoResult
  /\ caught' = "none"
  /\ returned' = "processExisting rejected"
  /\ UNCHANGED <<events, deadLetter, passed, fsEvents, watcher, openHandles, running,
                 processing, pendingFiles, processTimer, armedTimers, startCalls, stopCalls,
                 batches, outcomes>>
  /\ UNCHANGED <<gatewayHandle, executions>>

\* ------------------------------------------------------------- environment
\* what producers write: the fields the queue reads
EventFiles(priorities, times, maxRetries, retryCounts, expiries) ==
  [kind : {"event"}, priority : priorities, createdAtMs : times, maxRetries : maxRetries,
   retryCount : retryCounts, expiresAt : expiries]

\* the files producers write while the watcher works: one that does not validate,
\* and an event with a retry budget of one
ProducedFiles == {Malformed} \cup EventFiles({Absent}, {10}, {1}, {NoCount}, {Absent})

\* a producer renames a complete file into the events directory under a fresh id
Produce(id, f) ==
  /\ events[id] = NoFile
  /\ outcomes[id] = {}
  /\ events' = [events EXCEPT ![id] = f]
  /\ fsEvents' = IF AnyOpen THEN fsEvents \cup {resolveSpoolEventPath(id)} ELSE fsEvents
  /\ lastResult' = NoResult
  /\ caught' = "none"
  /\ returned' = "none"
  /\ UNCHANGED <<deadLetter, passed, watcher, openHandles, running, processing, pendingFiles,
                 processTimer, armedTimers, startCalls, stopCalls, existingCalls, batches,
                 outcomes>>
  /\ UNCHANGED <<gatewayHandle, executions>>

\* time passes the expiresAt instant of an event
Expire(id) ==
  /\ IsValidFile(events[id])
  /\ events[id].expiresAt # Absent
  /\ id \notin passed
  /\ passed' = passed \cup {id}
  /\ lastResult' = NoResult
  /\ caught' = "none"
  /\ returned' = "none"
  /\ UNCHANGED <<events, deadLetter, fsEvents, watcher, openHandles, running, processing,
                 pendingFiles, processTimer, armedTimers, startCalls, stopCalls,
                 existingCalls, batches, outcomes>>
  /\ UNCHANGED <<gatewayHandle, executions>>

\* ---------------------------------------------------------- specifications
\* Spec: the watcher through its whole life, producers writing files as it works.
Next ==
  \/ StartCall
  \/ StartResume
  \/ StartFail
  \/ StopCall
  \/ \E h \in Handles : StopResume(h)
  \/ \E p \in EventPaths : NotifyEvent(p)
  \/ \E p \in NoisePaths : NotifyOther(p)
  \/ OnError
  \/ \E referenced, cfgOk \in BOOLEAN : TimerFire(referenced, cfgOk)
  \/ \E s \in Slots : ListResolve(s)
  \/ \E s \in Slots : ListReject(s)
  \/ \E s \in Slots, exec \in ExecOutcomes : DispatchSettle(s, exec)
  \/ ExistingCall
  \/ ExistingResume
  \/ ExistingReject
  \/ \E id \in ProducerIds, f \in ProducedFiles : Produce(id, f)

Spec == Init /\ [][Next]_vars

\* A started watcher: start() has opened the watch over a directory that holds
\* `files`, and chokidar owes an add for every file present.
Started(files) ==
  /\ events \in [Ids -> files \cup {NoFile}]
  /\ deadLetter = {}
  /\ passed = {}
  /\ fsEvents = {resolveSpoolEventPath(id) : id \in {i \in Ids : IsFile(events[i])}}
  /\ watcher = 1
  /\ openHandles = {1}
  /\ running = TRUE
  /\ processing = FALSE
  /\ pendingFiles = {}
  /\ processTimer = "null"
  /\ armedTimers = 0
  /\ startCalls = 0
  /\ stopCalls = [h \in Handles |-> 0]
  /\ existingCalls = 0
  /\ batches = [s \in Slots |-> IdleBatch]
  /\ lastResult = NoResult
  /\ caught = "none"
  /\ returned = "none"
  /\ outcomes = [id \in Ids |-> {}]
  /\ gatewayHandle = "null"
  /\ executions = [id \in Ids |-> [count |-> 0, first |-> NoFile]]

\* SpecRetry: a started watcher over one file that differs in retry budget, retry
\* count and expiry, and companions written as in Spec; the queue runs, nobody
\* starts or stops.
RetryFiles == {Malformed} \cup EventFiles({Absent}, {10}, {NoCount, 0, 1, 2}, {NoCount, 1}, {Absent, "set"})

InitRetry ==
  /\ Started(RetryFiles \cup ProducedFiles)
  /\ \A id \in ProducerIds \ {IdNames[1]} : events[id] \in ProducedFiles \cup {NoFile}
  /\ \A id \in Ids \ ProducerIds : events[id] = NoFile

NextRetry ==
  \/ \E p \in EventPaths : NotifyEvent(p)
  \/ \E referenced, cfgOk \in BOOLEAN : TimerFire(referenced, cfgOk)
  \/ \E s \in Slots : ListResolve(s)
  \/ \E s \in Slots : ListReject(s)
  \/ \E s \in Slots, exec \in ExecOutcomes : DispatchSettle(s, exec)
  \/ ExistingCall
  \/ ExistingResume
  \/ \E id \in Ids : Expire(id)

SpecRetry == InitRetry /\ [][NextRetry]_vars

\* SpecBudget: SpecRetry with an executor that fails whenever it is invoked, the
\* invocations counted; notifications, the re-notification after each rewrite and
\* processExisting() bring the event back batch after batch.
SettleFailing(s) ==
  \E exec \in {"ok", "fail"} : DispatchSettleCounted(s, exec) /\ lastResult'.executor # "ok"

NextBudget ==
  \/ \E p \in EventPaths : NotifyEvent(p)
  \/ \E referenced, cfgOk \in BOOLEAN : TimerFire(referenced, cfgOk)
  \/ \E s \in Slots : ListResolve(s)
  \/ \E s \in Slots : ListReject(s)
  \/ \E s \in Slots : SettleFailing(s)
  \/ ExistingCall
  \/ ExistingResume

SpecBudget == InitRetry /\ [][NextBudget]_vars

\* SpecOrder: a started watcher over files that differ in priority and creation
\* time, all of them notified and the debounce timer armed; batches run.
OrderFiles == {Malformed} \cup EventFiles({Absent, "low", "high", "critical"}, {10, 20}, {1}, {NoCount}, {Absent})

InitOrder ==
  \E files \in [Ids -> OrderFiles \cup {NoFile}] :
    /\ events = files
    /\ deadLetter = {}
    /\ passed = {}
    /\ fsEvents = {}
    /\ watcher = 1
    /\ openHandles = {1}
    /\ running = TRUE
    /\ processing = FALSE
    /\ pendingFiles = {resolveSpoolEventPath(id) : id \in {i \in Ids : IsFile(files[i])}}
    /\ processTimer = IF \E i \in Ids : IsFile(files[i]) THEN "live" ELSE "null"
    /\ armedTimers = IF \E i \in Ids : IsFile(files[i]) THEN 1 ELSE 0
    /\ startCalls = 0
    /\ stopCalls = [h \in Handles |-> 0]
    /\ existingCalls = 0
    /\ batches = [s \in Slots |-> IdleBatch]
    /\ lastResult = NoResult
    /\ caught = "none"
    /\ returned = "none"
    /\ outcomes = [id \in Ids |-> {}]
    /\ gatewayHandle = "null"
    /\ executions = [id \in Ids |-> [count |-> 0, first |-> NoFile]]

NextOrder ==
  \/ \E referenced, cfgOk \in BOOLEAN : TimerFire(referenced, cfgOk)
  \/ \E s \in Slots : ListResolve(s)
  \/ \E s \in Slots : ListReject(s)
  \/ \E s \in Slots, exec \in ExecOutcomes : DispatchSettle(s, exec)

SpecOrder == InitOrder /\ [][NextOrder]_vars

\* SpecObserver: SpecOrder with an onEvent callback that may throw on any result
\* it is handed.
NextObserver ==
  \/ \E referenced, cfgOk \in BOOLEAN : TimerFire(referenced, cfgOk)
  \/ \E s \in Slots : ListResolve(s)
  \/ \E s \in Slots : ListReject(s)
  \/ \E s \in Slots, exec \in ExecOutcomes, observer \in {"returns", "throws"} :
       DispatchSettleObserved(s, exec, observer)

SpecObserver == InitOrder /\ [][NextObserver]_vars

TimerStep == \E referenced, cfgOk \in BOOLEAN : TimerFire(referenced, cfgOk)

\* SpecLive: SpecRetry where every dispatch returns, with the scheduling the
\* runtime gives: an owed notification is delivered, an armed timer fires, a
\* pending promise settles. Strong fairness on the successful load and listing:
\* a load that is tried again and again does not fail forever.
ReturnOutcomes == ExecOutcomes \ {"throw"}

NextLive ==
  \/ \E p \in EventPaths : NotifyEvent(p)
  \/ \E referenced, cfgOk \in BOOLEAN : TimerFire(referenced, cfgOk)
  \/ \E s \in Slots : ListResolve(s)
  \/ \E s \in Slots : ListReject(s)
  \/ \E s \in Slots, exec \in ReturnOutcomes : DispatchSettle(s, exec)
  \/ ExistingCall
  \/ ExistingResume
  \/ \E id \in Ids : Expire(id)

Fairness ==
  /\ \A p \in EventPaths : WF_vars(NotifyEvent(p))
  /\ WF_vars(TimerStep)
  /\ SF_vars(TimerFire(TRUE, TRUE))
  /\ WF_vars(\E s \in Slots : ListResolve(s) \/ ListReject(s))
  /\ SF_vars(\E s \in Slots : ListResolve(s))
  /\ WF_vars(\E s \in Slots, exec \in ReturnOutcomes : DispatchSettle(s, exec))
  /\ WF_vars(ExistingResume)

SpecLive == InitRetry /\ [][NextLive]_vars /\ Fairness

\* SpecNoise: a started watcher over files written as in Spec, with chokidar
\* reporting temporary and foreign names at any time; the queue runs.
InitNoise ==
  /\ Started(ProducedFiles)
  /\ \A id \in Ids \ ProducerIds : events[id] = NoFile

NextNoise ==
  \/ \E p \in EventPaths : NotifyEvent(p)
  \/ \E p \in AllNoisePaths : NotifyOther(p)
  \/ \E referenced, cfgOk \in BOOLEAN : TimerFire(referenced, cfgOk)
  \/ \E s \in Slots : ListResolve(s)
  \/ \E s \in Slots : ListReject(s)
  \/ \E s \in Slots, exec \in ExecOutcomes : DispatchSettle(s, exec)
  \/ ExistingCall
  \/ ExistingResume

SpecNoise == InitNoise /\ [][NextNoise]_vars

\* SpecNested: SpecNoise with the names chokidar reports for a file created in a
\* subdirectory of the events directory: chokidar.watch(eventsDir, ...) is given
\* no depth option (watcher.ts:475-479) and so descends into subdirectories.
NextNested ==
  \/ \E p \in EventPaths : NotifyEvent(p)
  \/ \E p \in NestedPaths : NotifyOther(p)
  \/ \E referenced, cfgOk \in BOOLEAN : TimerFire(referenced, cfgOk)
  \/ \E s \in Slots : ListResolve(s)
  \/ \E s \in Slots : ListReject(s)
  \/ \E s \in Slots, exec \in ExecOutcomes : DispatchSettle(s, exec)
  \/ ExistingCall
  \/ ExistingResume

SpecNested == InitNoise /\ [][NextNested]_vars

\* SpecStop: a started watcher that is stopped and not started again: the queue
\* runs, processExisting() is called, and stop() lands at any moment.
NextStop ==
  \/ StopCall
  \/ \E h \in Handles : StopResume(h)
  \/ \E p \in EventPaths : NotifyEvent(p)
  \/ \E referenced, cfgOk \in BOOLEAN : TimerFire(referenced, cfgOk)
  \/ \E s \in Slots : ListResolve(s)
  \/ \E s \in Slots : ListReject(s)
  \/ \E s \in Slots, exec \in ExecOutcomes : DispatchSettle(s, exec)
  \/ ExistingCall
  \/ ExistingResume
  \/ ExistingReject

SpecStop == InitNoise /\ [][NextStop]_vars

\* SpecGateway: the gateway starts and stops its watcher through
\* startGatewaySpoolWatcher and stopGatewaySpoolWatcher, in any interleaving,
\* while files are written and the queue runs.
NextGateway ==
  \/ StartGatewayCall
  \/ StartGatewayResume
  \/ StartGatewayFail
  \/ StopGatewayCall
  \/ \E h \in Handles : StopGatewayResume(h)
  \/ \E p \in EventPaths : NotifyEvent(p)
  \/ OnError
  \/ \E referenced, cfgOk \in BOOLEAN : TimerFire(referenced, cfgOk)
  \/ \E s \in Slots : ListResolve(s)
  \/ \E s \in Slots : ListReject(s)
  \/ \E s \in Slots, exec \in ExecOutcomes : DispatchSettle(s, exec)
  \/ Produce(IdNames[1], CHOOSE f \in ProducedFiles : IsValidFile(f))

SpecGateway == Init /\ [][NextGateway]_vars

\* SpecLifecycle: start() and stop() called in any interleaving, each call free to
\* land while an earlier one is at its await, and every start() that gets past the
\* await opening its watch, whatever is open already; files are written and the
\* queue runs meanwhile.
NextLifecycle ==
  \/ StartCall
  \/ StartResumeAny
  \/ StartFail
  \/ StopCall
  \/ \E h \in Handles : StopResume(h)
  \/ \E p \in EventPaths : NotifyEvent(p)
  \/ \E referenced, cfgOk \in BOOLEAN : TimerFire(referenced, cfgOk)
  \/ \E s \in Slots : ListResolve(s)
  \/ \E s \in Slots : ListReject(s)
  \/ \E s \in Slots, exec \in ExecOutcomes : DispatchSettle(s, exec)
  \/ Produce(IdNames[1], CHOOSE f \in ProducedFiles : IsValidFile(f))

SpecLifecycle == Init /\ [][NextLifecycle]_vars

\* SpecValidate: one file of the events directory holds a JSON document, and the
\* dispatcher's first step reads and validates it.
NoDelivery == [present |-> FALSE, enabled |-> Missing, channel |-> Missing, to |-> Missing, unknown |-> {}]
Deliveries ==
  {NoDelivery} \cup [present : {TRUE}, enabled : {"true"}, channel : {Missing}, to : {Missing},
                     unknown : {{}, {"bar"}}]
Payloads ==
  [present : {TRUE}, kind : {"'agentTurn'"}, message : {"'hi'", "''", Missing},
   agentId : {Missing}, delivery : Deliveries, unknown : {{}, {"baz"}}]
NotAnObject ==
  [present |-> FALSE, version |-> Missing, id |-> Missing, createdAt |-> Missing,
   createdAtMs |-> Missing, priority |-> Missing, maxRetries |-> Missing,
   retryCount |-> Missing, expiresAt |-> Missing,
   payload |-> [present |-> FALSE, kind |-> Missing, message |-> Missing, agentId |-> Missing,
                delivery |-> NoDelivery, unknown |-> {}],
   unknown |-> {}]
Documents ==
  {NotAnObject} \cup
  [present : {TRUE}, version : {"1", "2", Missing}, id : {UuidText, "'hi'"},
   createdAt : {IsoText}, createdAtMs : {"10", "0"}, priority : {Missing, "'high'"},
   maxRetries : {Missing, "0", "-1", "1.5"}, retryCount : {Missing, "-1"},
   expiresAt : {Missing}, payload : Payloads, unknown : {{}, {"foo"}}]

InitValidate ==
  /\ \E data \in Documents :
       events = [id \in Ids |-> IF id = IdNames[1] THEN [kind |-> "raw", data |-> data] ELSE NoFile]
  /\ deadLetter = {}
  /\ passed = {}
  /\ fsEvents = {}
  /\ watcher = 0
  /\ openHandles = {}
  /\ running = FALSE
  /\ processing = FALSE
  /\ pendingFiles = {}
  /\ processTimer = "null"
  /\ armedTimers = 0
  /\ startCalls = 0
  /\ stopCalls = [h \in Handles |-> 0]
  /\ existingCalls = 0
  /\ batches = [s \in Slots |-> IdleBatch]
  /\ lastResult = NoResult
  /\ caught = "none"
  /\ returned = "none"
  /\ outcomes = [id \in Ids |-> {}]
  /\ gatewayHandle = "null"
  /\ executions = [id \in Ids |-> [count |-> 0, first |-> NoFile]]

\* the file is read and handed to validateSpoolEvent
ReadAndValidate(id) ==
  /\ events[id].kind = "raw"
  /\ lastResult = NoResult
  /\ lastResult' = [status |-> "validated", eventId |-> <<id>>,
                    result |-> validateSpoolEvent(events[id].data)]
  /\ UNCHANGED <<events, deadLetter, passed, fsEvents, watcher, openHandles, running,
                 processing, pendingFiles, processTimer, armedTimers, startCalls, stopCalls,
                 existingCalls, batches, caught, returned, outcomes>>
  /\ UNCHANGED <<gatewayHandle, executions>>

NextValidate == \E id \in Ids : ReadAndValidate(id)

SpecValidate == InitValidate /\ [][NextValidate]_vars

\* SpecPaths: the path resolver is applied to two event ids.  An event id is a
\* file-name stem: a UUID (schema.ts:33) or what path.basename left of a reported
\* name (watcher.ts:351, 355), so it holds no path separator and `${eventId}.json`
\* is a single component, which path.join appends unchanged.
PathStems ==
  Ids \cup {"", ".", "..", "e1.json", "e1.json.tmp.4711", SPOOL_SUBDIR, EVENTS_SUBDIR,
            DEAD_LETTER_SUBDIR, "123e4567-e89b-12d3-a456-426614174000",
            "123E4567-E89B-12D3-A456-426614174000"}

InitPaths == Init

ResolvePaths(a, b) ==
  /\ lastResult' = [status |-> "resolved", a |-> a, b |-> b,
                    eventPathA |-> resolveSpoolEventPath(a),
                    eventPathB |-> resolveSpoolEventPath(b),
                    deadLetterPathA |-> resolveSpoolDeadLetterPath(a),
                    deadLetterPathB |-> resolveSpoolDeadLetterPath(b)]
  /\ UNCHANGED <<events, deadLetter, passed, fsEvents, watcher, openHandles, running,
                 processing, pendingFiles, processTimer, armedTimers, startCalls, stopCalls,
                 existingCalls, batches, caught, returned, outcomes>>
  /\ UNCHANGED <<gatewayHandle, executions>>

NextPaths == \E a, b \in PathStems : ResolvePaths(a, b)

SpecPaths == InitPaths /\ [][NextPaths]_vars

\* SpecCreate: a producer's input is handed to validateSpoolEventCreate.
CreatePayloads == {p \in Payloads : p.delivery = NoDelivery /\ p.unknown = {}}
CreateInputs ==
  {NotAnObject} \cup
  [present : {TRUE}, version : {"1", "2"}, id : {Missing, UuidText},
   createdAt : {Missing, IsoText}, createdAtMs : {Missing, "10"},
   priority : {Missing, "'high'", "'hi'"}, maxRetries : {Missing, "0", "-1"},
   retryCount : {Missing, "0"}, expiresAt : {Missing, IsoText},
   payload : CreatePayloads, unknown : {{}, {"foo"}}]

InitCreate ==
  /\ \E data \in CreateInputs :
       events = [id \in Ids |-> IF id = IdNames[1] THEN [kind |-> "input", data |-> data] ELSE NoFile]
  /\ deadLetter = {}
  /\ passed = {}
  /\ fsEvents = {}
  /\ watcher = 0
  /\ openHandles = {}
  /\ running = FALSE
  /\ processing = FALSE
  /\ pendingFiles = {}
  /\ processTimer = "null"
  /\ armedTimers = 0
  /\ startCalls = 0
  /\ stopCalls = [h \in Handles |-> 0]
  /\ existingCalls = 0
  /\ batches = [s \in Slots |-> IdleBatch]
  /\ lastResult = NoResult
  /\ caught = "none"
  /\ returned = "none"
  /\ outcomes = [id \in Ids |-> {}]
  /\ gatewayHandle = "null"
  /\ executions = [id \in Ids |-> [count |-> 0, first |-> NoFile]]

\* the input is handed to validateSpoolEventCreate
ValidateCreate(id) ==
  /\ events[id].kind = "input"
  /\ lastResult = NoResult
  /\ lastResult' = [status |-> "create validated", eventId |-> <<id>>,
                    result |-> validateSpoolEventCreate(events[id].data)]
  /\ UNCHANGED <<events, deadLetter, passed, fsEvents, watcher, openHandles, running,
                 processing, pendingFiles, processTimer, armedTimers, startCalls, stopCalls,
                 existingCalls, batches, caught, returned, outcomes>>
  /\ UNCHANGED <<gatewayHandle, executions>>

NextCreate == \E id \in Ids : ValidateCreate(id)

SpecCreate == InitCreate /\ [][NextCreate]_vars

\* getState()
getState ==
  [running |-> running, eventsDir |-> resolveSpoolEventsDir,
   deadLetterDir |-> resolveSpoolDeadLetterDir, pendingCount |-> Cardinality(pendingFiles)]

\* ---------------------------------------------------------------------------
\* Properties

InFlight == {s \in Slots : batches[s].phase # "idle"}
Dispatching == {s \in Slots : batches[s].phase = "dispatch"}

\* C1: at most one processQueue invocation is past its guard at any time, under
\* every interleaving of notifications, timer firings, processExisting, start and
\* stop; a timer that fires while a batch is in flight starts no second batch and
\* dispatches nothing.
C1_SingleBatch ==
  /\ [](Cardinality(InFlight) <= 1)
  /\ [](InFlight # {} => processing)
  /\ [][(TimerStep /\ InFlight # {}) => (batches' = batches /\ lastResult' = NoResult)]_vars

\* a batch is dispatching, a path notified during it is pending, and the timer
\* armed for it has already fired
C1_Witness ==
  /\ running
  /\ Dispatching # {}
  /\ processTimer = "dead"
  /\ \E p \in pendingFiles : IsCandidate(p)

\* the dispatcher has been called on path p and has not yet returned
DispatchedNow(p) == \E s \in Dispatching : batches[s].cur.path = p

\* C2: while the watcher stays running and every dispatch returns, each candidate
\* path that enters the pending set is eventually handed to the dispatcher.
C2_AtLeastOnce ==
  \A p \in EventPaths : (p \in pendingFiles) ~> (DispatchedNow(p) \/ ~running)

\* the dispatches of batch b so far, the one in flight included
BatchOrder(b) ==
  IF b.phase = "idle" THEN <<>>
  ELSE b.order \o (IF b.phase = "dispatch" THEN <<OrderEntry(b)>> ELSE <<>>)

\* C3: within one batch the valid captured events are dispatched by descending
\* priority (critical, high, normal, low) and, at equal priority, by ascending
\* createdAtMs; a higher priority goes first even when created later.
C3_PriorityOrder ==
  \A s \in Slots :
    LET o == BatchOrder(batches[s]) IN
      \A i, j \in 1..Len(o) :
        (i < j /\ o[i].valid /\ o[j].valid) =>
          \/ o[i].rank > o[j].rank
          \/ o[i].rank = o[j].rank /\ o[i].createdAtMs <= o[j].createdAtMs

\* a batch dispatched a higher-priority event before a lower-priority one that
\* was created earlier, and two events of equal priority oldest first
C3_Witness ==
  \E s \in Slots :
    LET o == BatchOrder(batches[s]) IN
      /\ Len(o) = 3
      /\ \A i \in 1..3 : o[i].valid
      /\ o[1].rank > o[2].rank /\ o[1].createdAtMs > o[2].createdAtMs
      /\ o[2].rank = o[3].rank /\ o[2].createdAtMs < o[3].createdAtMs

\* the step just taken was a dispatch that returned a result for event id
Returned(id) == lastResult # NoResult /\ lastResult.status # "thrown" /\ lastResult.eventId = <<id>>

\* C4: an executor failure on a valid, unexpired event adds exactly 1 to the
\* retry count the dispatcher read; when the new count reaches maxRetries
\* (3 when absent) the event goes to dead-letter, otherwise the file is rewritten
\* in place with the new count.
C4_RetryBudget ==
  \A id \in Ids :
    (Returned(id) /\ lastResult.executor = "fail") =>
      LET f == lastResult.snap
          old == IF f.retryCount = NoCount THEN 0 ELSE f.retryCount
          max == IF f.maxRetries = NoCount THEN 3 ELSE f.maxRetries
      IN IF old + 1 >= max
           THEN /\ lastResult.fileOp = "deadLetter"
                /\ events[id] = NoFile
                /\ id \in deadLetter
           ELSE /\ lastResult.fileOp = "rewrite"
                /\ events[id] = [f EXCEPT !.retryCount = old + 1]
                /\ id \notin deadLetter

\* the third failure of an event with no maxRetries of its own: the count read
\* was 2 and the event is in dead-letter
C4_Witness ==
  \E id \in Ids :
    /\ Returned(id) /\ lastResult.executor = "fail"
    /\ lastResult.snap.maxRetries = NoCount
    /\ lastResult.snap.retryCount = 2
    /\ id \in deadLetter

\* C5: dispatching a file that fails parsing or validation moves it to
\* dead-letter with status error; it is not rewritten for retry, not left in the
\* events directory, and the executor is not invoked.
C5_InvalidDeadLetter ==
  \A id \in Ids :
    (Returned(id) /\ lastResult.snap = Malformed) =>
      /\ lastResult.status = "error"
      /\ lastResult.executor = "none"
      /\ lastResult.fileOp = "deadLetter"
      /\ events[id] = NoFile
      /\ id \in deadLetter

C5_Witness ==
  \E id \in Ids :
    /\ Returned(id) /\ lastResult.snap = Malformed
    /\ outcomes[id] = {"deadLetter"}

\* C6: dispatching a valid event whose expiresAt has passed deletes the file and
\* returns status expired; the event is not moved to dead-letter, not rewritten,
\* and the executor is not invoked.
C6_ExpiredDeleted ==
  \A id \in Ids :
    (Returned(id) /\ IsValidFile(lastResult.snap) /\ lastResult.expired) =>
      /\ lastResult.status = "expired"
      /\ lastResult.executor = "none"
      /\ lastResult.fileOp = "delete"
      /\ events[id] = NoFile
      /\ id \notin deadLetter

\* an event that had failed once and then expired is dispatched and deleted
C6_Witness ==
  \E id \in Ids :
    /\ Returned(id) /\ IsValidFile(lastResult.snap) /\ lastResult.expired
    /\ id \in passed
    /\ lastResult.snap.retryCount = 1
    /\ outcomes[id] = {"deleted"}

\* C7: every event reaches at most one terminal outcome, deletion or relocation
\* to dead-letter, and an id is never present in the events directory and in the
\* dead-letter directory at once.
C7_OneTerminalOutcome ==
  \A id \in Ids :
    /\ Cardinality(outcomes[id]) <= 1
    /\ ~(IsFile(events[id]) /\ id \in deadLetter)
    /\ resolveSpoolEventPath(id) # resolveSpoolDeadLetterPath(id)
    /\ (id \in deadLetter) <=> (outcomes[id] = {"deadLetter"})
    /\ (outcomes[id] # {}) => events[id] = NoFile

\* one event was deleted and another relocated, neither is in the events directory
C7_Witness ==
  \E a, b \in Ids :
    /\ outcomes[a] = {"deleted"} /\ a \notin deadLetter
    /\ outcomes[b] = {"deadLetter"} /\ b \in deadLetter
    /\ events[a] = NoFile /\ events[b] = NoFile

\* the dispatcher is running for event id: it was called on id's path
InDispatch(id) == {s \in Dispatching : batches[s].cur.path = resolveSpoolEventPath(id)}

\* C8: terminal outcomes are absorbing: once an event has been deleted or
\* relocated to dead-letter the watcher never dispatches it again.
C8_NeverDispatchedAgain ==
  \A id \in Ids : (outcomes[id] # {}) => InDispatch(id) = {}

\* What remains of it: once an event has a terminal outcome it never reappears in
\* the events directory and the executor is never invoked for it again: a dispatch
\* call the watcher still makes for a stale pending path of it finds no file.
C8_TerminalAbsorbing ==
  /\ [](\A id \in Ids :
         (outcomes[id] # {}) =>
           /\ events[id] = NoFile
           /\ \A s \in InDispatch(id) : batches[s].cur.snap = NoFile
           /\ Returned(id) => (lastResult.executor = "none" \/ lastResult.fileOp \in {"delete", "deadLetter"}))
  /\ [][\A id \in Ids : (outcomes[id] # {}) => (outcomes'[id] = outcomes[id] /\ events'[id] = NoFile)]_vars

\* the watcher calls the dispatcher on the path of an event that is already
\* deleted or in dead-letter, and the dispatcher finds no file
C8_Witness ==
  \E id \in Ids :
    /\ outcomes[id] # {}
    /\ \E s \in InDispatch(id) : batches[s].cur.snap = NoFile

\* C9: the retry count persisted for an event never decreases, and it strictly
\* increases on every failed executor attempt that leaves the event on disk.
C9_RetryMonotone ==
  [][\A id \in Ids :
       /\ (IsValidFile(events[id]) /\ IsValidFile(events'[id])) =>
            RetryCountOf(events'[id]) >= RetryCountOf(events[id])
       /\ (lastResult'.status # "none" /\ lastResult'.eventId = <<id>>
           /\ lastResult'.executor = "fail" /\ IsValidFile(events'[id])) =>
            /\ IsValidFile(events[id])
            /\ RetryCountOf(events'[id]) > RetryCountOf(events[id])]_vars

\* a failed attempt has left an event without maxRetries on disk with count 2
C9_Witness ==
  \E id \in Ids :
    /\ Returned(id) /\ lastResult.executor = "fail"
    /\ IsValidFile(events[id])
    /\ events[id].retryCount = 2
    /\ events[id].maxRetries = NoCount

\* a batch of processQueue ends in this step by a throw of loadConfig or a
\* rejection of listSpoolEvents, having captured the paths `captured`
LoadFails(captured) ==
  \/ /\ TimerFire(TRUE, FALSE) \/ TimerFire(FALSE, FALSE)
     /\ ProcessQueueGuard
     /\ captured = CapturedPaths
     /\ captured # {}
  \/ \E s \in Slots :
       /\ ListReject(s)
       /\ captured = batches[s].capturedPaths

\* C10: when a batch fails at loadConfig or at listSpoolEvents, every candidate
\* path that was pending when the batch began is still pending when it ends, and
\* the batch has dispatched nothing.
C10_FailedLoadKeepsPending ==
  /\ [][\A captured \in SUBSET EventPaths :
          LoadFails(captured) =>
            /\ captured \subseteq pendingFiles'
            /\ lastResult' = NoResult
            /\ UNCHANGED diskVars
            /\ ~processing']_vars
  /\ [](\A s \in Slots : batches[s].phase = "listing" =>
          /\ batches[s].order = <<>>
          /\ batches[s].capturedPaths \subseteq pendingFiles)

\* the listing of a batch was rejected and the paths it had captured are pending
C10_Witness ==
  /\ caught = "listSpoolEvents"
  /\ ~processing
  /\ Cardinality({p \in pendingFiles : IsCandidate(p)}) = 2

\* C11: after a batch fails at loadConfig or listSpoolEvents the watcher itself
\* arms a retry timer, so the preserved paths are processed by a later batch
\* without any further notification.
C11_RetryArmedAfterFailedLoad ==
  (running /\ caught # "none") => processTimer = "live"

\* C12: when stop() has cleared running while start() was awaiting the directory
\* creation, start() settles without opening a watch and running stays false.
C12_StartAbortsAfterStop ==
  [][(startCalls > 0 /\ ~running /\ startCalls' < startCalls) =>
       (openHandles' = openHandles /\ ~running')]_vars

\* C13: stop() closes the directory watch whenever one exists, also when running
\* was already false: after any stop() call returns no watch handle is open.
C13_StopClosesWatch ==
  returned \in {"stop", "stop early"} => openHandles = {}

\* C14: start() called while the watcher is running is a no-op: it does not go on
\* to open a watch, and it leaves the watch, its handlers, pendingFiles, the
\* timer and the processing flag as they were.
C14_StartIdempotent ==
  /\ [][running => startCalls' <= startCalls]_vars
  /\ [][returned' = "start early" =>
          /\ running /\ running'
          /\ UNCHANGED <<watcher, openHandles, fsEvents, pendingFiles, processTimer,
                         armedTimers, processing, batches, startCalls>>]_vars

\* start() returned early while a watch is open, a batch is in flight and a timer
\* is armed
C14_Witness ==
  /\ returned = "start early"
  /\ openHandles # {}
  /\ processing
  /\ processTimer = "live"
  /\ pendingFiles # {}

\* the reported names that match the temporary-write pattern
TempPatternPaths == {p \in AllNoisePaths : IncludesJsonTmp(Basename(p))}

\* C15: a path whose file name contains ".json.tmp." is never captured as a
\* candidate and never dispatched, whatever the order of notifications, timer
\* firings and batches.
C15_TempNeverCandidate ==
  \A s \in InFlight : \A p \in TempPatternPaths :
    /\ p \notin batches[s].capturedPaths
    /\ StripJson(Basename(p)) \notin batches[s].pendingIds
    /\ batches[s].phase = "dispatch" => batches[s].cur.path # p

\* a batch captured event paths and passed over both temporary names, the one
\* that ends in .json included
C15_Witness ==
  \E s \in Slots :
    /\ batches[s].phase = "listing"
    /\ batches[s].capturedPaths # {}
    /\ TempPatternPaths \subseteq batches[s].skipped
    /\ Cardinality(TempPatternPaths) = 2

\* a cycle of processQueue that began with the non-candidate paths `noise` in
\* pendingFiles ends in this step without dispatching: no candidates, loadConfig
\* throwing, or listSpoolEvents rejecting
CycleEndsEmpty(noise) ==
  \/ /\ TimerStep
     /\ ProcessQueueGuard
     /\ batches' = batches
     /\ noise = pendingFiles \ CapturedPaths
  \/ \E s \in Slots :
       /\ ListReject(s)
       /\ noise = batches[s].skipped

\* C16: noise paths are removed from pendingFiles in every cycle, also in a cycle
\* with no candidates and in one whose load fails: when the cycle ends,
\* pendingFiles holds no noise path that was there when it began.
C16_NoiseRemoved ==
  [][\A noise \in SUBSET AllNoisePaths :
       CycleEndsEmpty(noise) => noise \cap pendingFiles' = {}]_vars

\* chokidar delivers an add or change for path p in this step
Notified(p) == NotifyEvent(p) \/ NotifyOther(p)

\* C17: an add or change notification received while running puts the path into
\* pendingFiles, where a path notified again takes no second entry (pendingCount
\* counts distinct paths), and re-arms the debounce timer; at most one debounce
\* timer is armed at any time.
C17_PendingSetOneTimer ==
  /\ [](armedTimers <= 1)
  /\ [](armedTimers = 1 <=> processTimer = "live")
  /\ [][\A p \in AllPaths \cup AllNoisePaths :
          (Notified(p) /\ running) =>
            /\ pendingFiles' = pendingFiles \cup {p}
            /\ getState'.pendingCount =
                 getState.pendingCount + (IF p \in pendingFiles THEN 0 ELSE 1)
            /\ processTimer' = "live"
            /\ armedTimers' = 1]_vars

\* an event path and a temporary name have both been notified, a batch is in
\* flight, and one timer is armed
C17_Witness ==
  /\ running
  /\ processing
  /\ NoisePaths \subseteq pendingFiles
  /\ getState.pendingCount = 3
  /\ processTimer = "live"
  /\ armedTimers = 1

\* C18: when a dispatch call throws, the watcher puts that event's file path back
\* into pendingFiles, so a later batch attempts the event again.
C18_ThrowRequeues ==
  lastResult.status = "thrown" =>
    JoinJson(resolveSpoolEventsDir, lastResult.eventId) \in pendingFiles

\* position of a priority in critical, high, normal, low; absent counts as normal
PriorityOrder == <<"critical", "high", "normal", "low">>
PositionOf(id) ==
  LET p == IF events[id].priority = Absent THEN "normal" ELSE events[id].priority
  IN CHOOSE k \in 1..4 : PriorityOrder[k] = p

\* C19: listSpoolEvents() returns exactly the events present that validate, each
\* once, by descending priority (critical, high, normal, low; absent as normal)
\* and, at equal priority, ascending createdAtMs: no adjacent pair is out of
\* that order.
C19_ListSorted ==
  /\ listSpoolEvents # {}
  /\ \A seq \in listSpoolEvents :
       /\ {seq[i].id : i \in 1..Len(seq)} = {id \in Ids : events[id].kind = "event"}
       /\ Len(seq) = Cardinality({id \in Ids : events[id].kind = "event"})
       /\ \A i \in 1..(Len(seq) - 1) :
            \/ PositionOf(seq[i].id) < PositionOf(seq[i + 1].id)
            \/ /\ PositionOf(seq[i].id) = PositionOf(seq[i + 1].id)
               /\ events[seq[i].id].createdAtMs <= events[seq[i + 1].id].createdAtMs

\* three valid events of priorities high, absent and low, the high one created
\* last, are listed high, absent, low
C19_Witness ==
  \E seq \in listSpoolEvents :
    /\ Len(seq) = 3
    /\ events[seq[1].id].priority = "high" /\ events[seq[1].id].createdAtMs = 20
    /\ events[seq[2].id].priority = Absent /\ events[seq[2].id].createdAtMs = 10
    /\ events[seq[3].id].priority = "low" /\ events[seq[3].id].createdAtMs = 10

\* the error string holds the pieces `part` one after the other, at its start or
\* right after a "; "
Names(error, part) ==
  \E k \in 1..Len(error) :
    /\ k = 1 \/ error[k - 1] = "; "
    /\ k + Len(part) - 1 <= Len(error)
    /\ SubSeq(error, k, k + Len(part) - 1) = part
Contains(error, piece) == \E k \in 1..Len(error) : error[k] = piece
CountTexts == {"0", "1", "2", "3", "10"}

\* C20: validateSpoolEvent always returns; it returns valid only for an object
\* with version 1, a UUID id, a non-empty string payload.message, maxRetries and
\* retryCount absent or integers >= 0, and no unknown key at top level, in
\* payload or in delivery; otherwise it returns an error that names the path of
\* each of these violations (an unknown key foo gives an error containing foo).
C20_ValidateStrictTotal ==
  lastResult.status = "validated" =>
    LET data == events[IdNames[1]].data
        r == lastResult.result
    IN /\ r.valid \in BOOLEAN
       /\ r.valid => r.event = data
       /\ r.valid =>
            /\ data.present
            /\ data.version = "1"
            /\ data.id = UuidText
            /\ data.payload.message \in {"'hi'"}
            /\ data.maxRetries \in CountTexts \cup {Missing}
            /\ data.retryCount \in CountTexts \cup {Missing}
            /\ data.unknown = {} /\ data.payload.unknown = {}
            /\ data.payload.delivery.unknown = {}
       /\ ~r.valid =>
            /\ r.error # <<>>
            /\ (data.present /\ data.version # "1") => Names(r.error, <<"version", ": ">>)
            /\ (data.present /\ data.id # UuidText) => Names(r.error, <<"id", ": ">>)
            /\ (data.present /\ data.payload.message # "'hi'") =>
                 Names(r.error, <<"payload", ".", "message", ": ">>)
            /\ (data.present /\ data.maxRetries \notin CountTexts \cup {Missing}) =>
                 Names(r.error, <<"maxRetries", ": ">>)
            /\ (data.present /\ data.retryCount \notin CountTexts \cup {Missing}) =>
                 Names(r.error, <<"retryCount", ": ">>)
            /\ \A key \in data.unknown : Names(r.error, <<": ", "Unrecognized key(s)", key>>)
            /\ \A key \in data.payload.unknown :
                 Names(r.error, <<"payload", ": ", "Unrecognized key(s)", key>>)
            /\ \A key \in data.payload.delivery.unknown :
                 Names(r.error, <<"payload", ".", "delivery", ": ", "Unrecognized key(s)", key>>)

\* a document whose only fault is the extra top-level key foo is rejected with
\* an error that contains foo
C20_Witness ==
  /\ lastResult.status = "validated"
  /\ ~lastResult.result.valid
  /\ events[IdNames[1]].data.unknown = {"foo"}
  /\ Contains(lastResult.result.error, "foo")
  /\ ~Contains(lastResult.result.error, "; ")

\* C21: path resolution is collision-free: two distinct event ids resolve to
\* distinct event paths and to distinct dead-letter paths, no event path equals a
\* dead-letter path, and an id resolves to spool/events/{id}.json and
\* spool/dead-letter/{id}.json below the state directory.
C21_PathsCollisionFree ==
  lastResult.status = "resolved" =>
    LET r == lastResult IN
      /\ r.a # r.b => (r.eventPathA # r.eventPathB /\ r.deadLetterPathA # r.deadLetterPathB)
      /\ {r.eventPathA, r.eventPathB} \cap {r.deadLetterPathA, r.deadLetterPathB} = {}
      /\ r.eventPathA = [dir |-> <<"spool", "events">>, name |-> <<r.a, ".json">>]
      /\ r.deadLetterPathA = [dir |-> <<"spool", "dead-letter">>, name |-> <<r.a, ".json">>]
      /\ r.eventPathB = [dir |-> <<"spool", "events">>, name |-> <<r.b, ".json">>]
      /\ r.deadLetterPathB = [dir |-> <<"spool", "dead-letter">>, name |-> <<r.b, ".json">>]

\* two different ids were resolved, one of them the name of a directory of the spool
C21_Witness ==
  /\ lastResult.status = "resolved"
  /\ lastResult.a = IdNames[1]
  /\ lastResult.b = DEAD_LETTER_SUBDIR
  /\ lastResult.eventPathA # lastResult.eventPathB

\* C22: only immediate children of the events directory are watched: a path in a
\* nested subdirectory is never in pending and never among the candidates a batch
\* captured, and every path handed to the dispatcher is one of the paths the
\* batch captured from pending.
C22_ImmediateChildrenOnly ==
  /\ pendingFiles \cap NestedPaths = {}
  /\ \A s \in Slots :
       batches[s].phase # "idle" =>
         /\ batches[s].capturedPaths \cap NestedPaths = {}
         /\ batches[s].phase = "dispatch" => batches[s].cur.path \in batches[s].capturedPaths

\* C23: when a dispatch returns status "error" for an event that stays in the
\* events directory (the executor failed within the retry budget and the file was
\* rewritten), the watcher has put the event's path back into pendingFiles by the
\* end of that step, before any notification for the rewritten file is delivered.
C23_ErrorRequeuesAtOnce ==
  (lastResult.status = "error" /\ lastResult.fileOp = "rewrite") =>
    JoinJson(resolveSpoolEventsDir, lastResult.eventId) \in pendingFiles

\* C24: while running is false no dispatch is started: a step taken with running
\* false leaves every batch either as it was (its awaited dispatch still in
\* flight) or ended, so the batch that resumes after stop() exits at its next
\* loop check and dispatches none of its remaining captured candidates.
C24_StopCancelsBetweenEvents ==
  [][~running =>
       \A s \in Slots :
         batches'[s] # batches[s] => (batches'[s].phase = "idle" /\ ~processing')]_vars

\* a dispatch that was awaited when stop() cleared running has returned its
\* result, the batch has ended, and a captured event is left as it was: its file
\* is there, no longer pending, no notification owed, no outcome given
C24_Witness ==
  /\ ~running
  /\ lastResult.status = "ok"
  /\ InFlight = {}
  /\ ~processing
  /\ \E id \in Ids :
       /\ <<id>> # lastResult.eventId
       /\ IsFile(events[id])
       /\ outcomes[id] = {}
       /\ resolveSpoolEventPath(id) \notin pendingFiles \cup fsEvents

\* the step in which a dispatch call of some batch settles
SettleStep == \E s \in Slots : batches[s].phase = "dispatch" /\ batches'[s] # batches[s]
\* the path whose dispatch settles in this step
SettledPaths == {batches[s].cur.path : s \in {t \in Slots : batches[t].phase = "dispatch" /\ batches'[t] # batches[t]}}

\* C25 as stated: every dispatch attempt yields one SpoolDispatchResult with
\* status ok, error, skipped or expired, handed to onEvent in the step the
\* attempt settles, and no other step hands anything to onEvent.
C25_OneResultPerAttempt ==
  [][/\ SettleStep =>
          /\ lastResult'.status \in {"ok", "error", "skipped", "expired"}
          /\ \E p \in SettledPaths : lastResult'.eventId = EventIdOf(p)
     /\ ~SettleStep => lastResult' = NoResult]_vars

\* C25 amended: every dispatch call that returns hands its result, of whatever
\* status and in either loop, to onEvent in the step it returns and in no other;
\* a call that throws yields no result and onEvent is not called for it.
C25_OneResultPerReturn ==
  [][/\ SettleStep =>
          /\ lastResult'.status \in {"ok", "error", "skipped", "expired", "thrown"}
          /\ lastResult'.status = "thrown" <=> lastResult'.executor = "throw"
          /\ \E p \in SettledPaths : lastResult'.eventId = EventIdOf(p)
     /\ ~SettleStep => lastResult' = NoResult]_vars

\* the second loop dispatched a file the listing had skipped and its result, an
\* error from the dispatcher's validation, was handed to onEvent
C25_Witness ==
  /\ lastResult.status = "error"
  /\ lastResult.snap = Malformed
  /\ lastResult.executor = "none"
  /\ lastResult.fileOp = "deadLetter"

\* C26: when ensureSpoolEventsDir() or chokidar.watch() fails inside start(), the
\* call rejects with running false and watcher null, it opens no watch and arms
\* no timer, and a start() called afterwards passes the guard and goes on to set
\* the watcher up again.
C26_StartFailureResets ==
  /\ [][returned' = "start rejected" =>
          /\ ~running'
          /\ watcher' = 0
          /\ openHandles' = openHandles
          /\ armedTimers' = armedTimers
          /\ processTimer' = processTimer
          /\ startCalls' = startCalls - 1]_vars
  /\ [](returned = "start rejected" => ENABLED (StartCall /\ running' /\ startCalls' = startCalls + 1))

\* a start() has been rejected and left the watcher stopped with nothing open
C26_Witness ==
  /\ returned = "start rejected"
  /\ ~running
  /\ watcher = 0
  /\ openHandles = {}
  /\ startCalls = 0
  /\ processTimer = "null"

\* C27: a throw of loadConfig or a rejection of listSpoolEvents inside a batch is
\* caught by the timer callback: in that step no call of the public interface
\* rejects, running is left as it was and processing is false.  On every exit of
\* a batch (no candidates, failed load, loops done, loops broken by stop)
\* processing is false, so it is true only while a batch is in flight.
C27_BatchFailureContained ==
  /\ [][caught' # "none" =>
          /\ returned' = "none"
          /\ running' = running
          /\ ~processing'
          /\ InFlight' = {}]_vars
  /\ [][\A s \in Slots :
          (batches[s].phase # "idle" /\ batches'[s].phase = "idle") => ~processing']_vars
  /\ [](processing => InFlight # {})

\* loadConfig threw in a batch of a running watcher: the flag is released, the
\* captured path is still pending and the timer that started the batch is spent
C27_Witness ==
  /\ caught = "loadConfig"
  /\ running
  /\ ~processing
  /\ InFlight = {}
  /\ returned = "none"
  /\ pendingFiles # {}
  /\ processTimer = "dead"

\* the step in which the load of batch s succeeds and its loops begin
LoadDone(s) == batches[s].phase = "listing" /\ batches'[s] # batches[s] /\ caught' = "none"

\* C28: when loadConfig and listSpoolEvents have succeeded, the batch removes from
\* pendingFiles exactly the paths it captured before the load; a path that came
\* into pendingFiles during the load is still there, and either the batch is still
\* in flight or a timer is armed for it.
C28_RemovesCapturedOnly ==
  [][\A s \in Slots :
       LoadDone(s) =>
         /\ pendingFiles' = pendingFiles \ batches[s].capturedPaths
         /\ \A p \in pendingFiles \ batches[s].capturedPaths : p \in pendingFiles'
         /\ (pendingFiles' # {} /\ batches'[s].phase = "idle") => processTimer' = "live"]_vars

\* a batch has loaded and is at its first dispatch; a candidate it did not
\* capture is pending and the timer its notification armed is live
C28_Witness ==
  \E s \in Slots :
    /\ batches[s].phase = "dispatch"
    /\ batches[s].order = <<>>
    /\ batches[s].capturedPaths \cap pendingFiles = {}
    /\ \E p \in pendingFiles \ batches[s].capturedPaths : IsCandidate(p)
    /\ processTimer = "live"

\* the ids of the entries of listing seq, and the ids batch b has dispatched so far
ListedIds(seq) == {<<seq[i].id>> : i \in 1..Len(seq)}
DispatchedIds(b) == {EventIdOf(BatchOrder(b)[i].path) : i \in 1..Len(BatchOrder(b))}
\* the step in which batch s leaves its loops
BatchEnds(s) == batches[s].phase # "idle" /\ batches'[s].phase = "idle" /\ caught' = "none"

\* C29: a batch of a running watcher ends only when every captured id has been
\* dispatched, the ids the listing skipped included; the skipped ids are the ones
\* dispatched by the second loop, after every dispatch of the sorted walk, and a
\* file that fails validation there is in dead-letter when its dispatch returns.
C29_ReconcileDispatchesSkipped ==
  /\ [][\A s \in Slots :
          (BatchEnds(s) /\ running) => batches[s].pendingIds \subseteq DispatchedIds(batches[s])]_vars
  /\ [](\A s \in Slots :
          LET b == batches[s]
              o == BatchOrder(b)
          IN b.phase = "dispatch" =>
               /\ \A i \in 1..Len(o) :
                    /\ EventIdOf(o[i].path) \in b.pendingIds
                    /\ o[i].pass = "reconcile" <=> EventIdOf(o[i].path) \notin ListedIds(b.sortedEvents)
               /\ \A i, j \in 1..Len(o) : (i < j /\ o[i].pass = "reconcile") => o[j].pass = "reconcile"
               /\ (o[Len(o)].pass = "reconcile")
                    => ListedIds(b.sortedEvents) \cap b.pendingIds \subseteq DispatchedIds(b))
  /\ [](\A id \in Ids :
          (Returned(id) /\ lastResult.snap = Malformed) => (id \in deadLetter /\ ~IsFile(events[id])))

\* a batch dispatched a valid event in the sorted walk, then a malformed file
\* that has been moved to dead-letter, and is now dispatching a second one
C29_Witness ==
  \E s \in Slots :
    LET o == BatchOrder(batches[s]) IN
      /\ Len(o) = 3
      /\ o[1].pass = "walk" /\ o[1].valid
      /\ o[2].pass = "reconcile" /\ ~o[2].valid
      /\ o[3].pass = "reconcile" /\ ~o[3].valid
      /\ lastResult.snap = Malformed
      /\ lastResult.fileOp = "deadLetter"
      /\ deadLetter # {}

\* a batch has completed in the step just taken, with candidate p pending
CompletedWith(p) ==
  /\ lastResult # NoResult
  /\ InFlight = {}
  /\ p \in pendingFiles
\* processQueue has been invoked past its guard and has captured p: a batch that
\* holds p is in flight, or the invocation of this step ended at loadConfig
FollowUpHas(p) ==
  \/ \E s \in Slots : batches[s].phase # "idle" /\ p \in batches[s].capturedPaths
  \/ caught = "loadConfig"

\* C30: when a batch completes with pendingFiles non-empty, the step leaves a
\* live debounce timer, whatever became of the timers armed during the batch; and
\* a candidate pending at that moment is captured by a later invocation of
\* processQueue with no further notification needed.
C30_RearmAfterBatch ==
  /\ [][\A s \in Slots :
          (BatchEnds(s) /\ pendingFiles' # {}) => (processTimer' = "live" /\ armedTimers' > 0)]_vars
  /\ \A p \in EventPaths : CompletedWith(p) ~> (FollowUpHas(p) \/ ~running)

\* a batch has just completed while a path notified during it is pending, and
\* the one pending timeout is the re-armed debounce timer
C30_Witness ==
  /\ running
  /\ lastResult.status = "ok"
  /\ InFlight = {}
  /\ ~processing
  /\ \E p \in pendingFiles : IsCandidate(p) /\ p \notin fsEvents
  /\ processTimer = "live"
  /\ armedTimers = 1

\* C31: a processExisting() call made while the watcher runs ends with the path
\* of every event the listing returned added to pendingFiles and nothing removed,
\* and with the debounce timer armed if pendingFiles is then non-empty; a call
\* made while the watcher is not running returns at once and changes nothing.
C31_ProcessExistingSeeds ==
  /\ [][returned' = "processExisting" =>
          /\ pendingFiles' = pendingFiles \cup {resolveSpoolEventPath(id) : id \in ValidIds}
          /\ IF pendingFiles' # {}
               THEN processTimer' = "live" /\ armedTimers' > 0
               ELSE processTimer' = processTimer /\ armedTimers' = armedTimers
          /\ UNCHANGED <<diskVars, running, processing, batches>>]_vars
  /\ [][returned' = "processExisting early" =>
          /\ ~running
          /\ UNCHANGED <<diskVars, lifeVars, queueVars, fsEvents>>]_vars

\* processExisting() has settled after seeding two listed events nobody had
\* notified, and the timer is armed
C31_Witness ==
  /\ returned = "processExisting"
  /\ running
  /\ Cardinality(pendingFiles \cap EventPaths) = 2
  /\ \A p \in pendingFiles : p \in fsEvents
  /\ processTimer = "live"

\* C32: once stop() has returned, and with no start() called after it, no
\* debounce timer is pending: the one stop() cancelled stays cancelled, and
\* neither a batch that was in flight nor a processExisting() that was awaiting
\* its listing when stop() was called arms a new one.
C32_NoTimerAfterStop ==
  (~running /\ StopsInFlight = 0) => (armedTimers = 0 /\ processTimer # "live")

\* C33: validateSpoolEventCreate rejects every input that holds id, createdAt,
\* createdAtMs, retryCount or any other undeclared key, with an error that names
\* the key; it accepts exactly the objects with version 1, a valid payload,
\* priority, maxRetries and expiresAt absent or valid, and no other key.
C33_CreateRejectsSystemFields ==
  lastResult.status = "create validated" =>
    LET data == events[IdNames[1]].data
        r == lastResult.result
        extra == data.unknown \cup {k \in {"id", "createdAt", "createdAtMs", "retryCount"} : data[k] # Missing}
    IN /\ r.valid \in BOOLEAN
       /\ (data.present /\ extra # {}) =>
            /\ ~r.valid
            /\ Contains(r.error, "Unrecognized key(s)")
            /\ \A key \in extra : Contains(r.error, key)
       /\ r.valid <=>
            /\ data.present
            /\ extra = {}
            /\ data.version = "1"
            /\ data.priority \in {Missing, "'low'", "'normal'", "'high'", "'critical'"}
            /\ data.maxRetries \in CountTexts \cup {Missing}
            /\ data.expiresAt \in {Missing, IsoText}
            /\ data.payload.present /\ data.payload.kind = "'agentTurn'"
            /\ data.payload.message = "'hi'"
       /\ r.valid => r.create = data

\* an input that would be valid but for its id is rejected with an error that
\* consists of the unrecognized key id
C33_Witness ==
  /\ lastResult.status = "create validated"
  /\ ~lastResult.result.valid
  /\ events[IdNames[1]].data.id = UuidText
  /\ lastResult.result.error = <<": ", "Unrecognized key(s)", "id">>

\* C34: once the calls of startGatewaySpoolWatcher and stopGatewaySpoolWatcher
\* have settled with the watcher stopped, no directory watch is open and
\* state.handle is null, also when the stop was called while the start was still
\* awaiting the directory creation.
C34_GatewayStopWins ==
  (~running /\ startCalls = 0 /\ StopsInFlight = 0) =>
    (openHandles = {} /\ gatewayHandle = "null")

\* how many dispatches of batch b, the one in flight included, were for id
TimesDispatched(b, id) ==
  Cardinality({i \in 1..Len(BatchOrder(b)) : EventIdOf(BatchOrder(b)[i].path) = id})

\* C35: a batch never dispatches the same captured id twice, neither twice in
\* one loop nor once in each; and when it leaves its loops with the watcher
\* running, it has dispatched every captured id exactly once.
C35_DispatchedExactlyOnce ==
  /\ [](\A s \in Slots :
          batches[s].phase # "idle" =>
            \A id \in batches[s].pendingIds : TimesDispatched(batches[s], id) <= 1)
  /\ [][\A s \in Slots :
          (BatchEnds(s) /\ running) =>
            \A id \in batches[s].pendingIds : TimesDispatched(batches[s], id) = 1]_vars

\* a batch that captured three ids is at its last dispatch: two went through
\* the sorted walk, the third goes through the second loop
C35_Witness ==
  \E s \in Slots :
    LET o == BatchOrder(batches[s]) IN
      /\ batches[s].phase = "dispatch"
      /\ Cardinality(batches[s].pendingIds) = 3
      /\ Len(o) = 3
      /\ o[1].pass = "walk" /\ o[2].pass = "walk" /\ o[3].pass = "reconcile"
      /\ \A id \in batches[s].pendingIds : TimesDispatched(batches[s], id) = 1

\* max(1, maxRetries - retryCount) of the file the first invocation read
Budget(f) ==
  IF MaxRetriesOf(f) - RetryCountOf(f) > 1 THEN MaxRetriesOf(f) - RetryCountOf(f) ELSE 1

\* C36: with an executor that always fails, the executor is invoked for an event
\* at most max(1, maxRetries - retryCount) times, counted from the file as first
\* read (maxRetries 3 and retryCount 0 when absent), over all batches; when that
\* many invocations have been made the event is in dead-letter and gone from the
\* events directory, and until then it is on disk with one more retry per
\* invocation.
C36_BoundedExecutorUse ==
  \A id \in Ids :
    LET e == executions[id] IN
      e.count > 0 =>
        /\ IsValidFile(e.first)
        /\ e.count <= Budget(e.first)
        /\ e.count = Budget(e.first) => (id \in deadLetter /\ events[id] = NoFile)
        /\ e.count < Budget(e.first) =>
             /\ id \notin deadLetter
             /\ IsValidFile(events[id])
             /\ RetryCountOf(events[id]) = RetryCountOf(e.first) + e.count

\* an event with no maxRetries and no retryCount of its own has had its third
\* failing invocation and is in dead-letter
C36_Witness ==
  \E id \in Ids :
    /\ executions[id].count = 3
    /\ executions[id].first.maxRetries = NoCount
    /\ executions[id].first.retryCount = NoCount
    /\ id \in deadLetter
    /\ events[id] = NoFile

\* a step of the "add" or "change" handler, for an event file or any other file
NotificationStep ==
  \/ \E p \in EventPaths : NotifyEvent(p)
  \/ \E p \in AllNoisePaths : NotifyOther(p)

\* C37: an add or change notification delivered while running is false leaves
\* pendingFiles, the debounce timer and the processing flag as they were; a
\* watcher error notification leaves pendingFiles, running and processing as
\* they were, whatever the state.
C37_StoppedNotificationsIgnored ==
  [][/\ (NotificationStep /\ ~running) =>
          UNCHANGED <<pendingFiles, processTimer, armedTimers, processing>>
     /\ OnError => UNCHANGED <<pendingFiles, running, processing>>]_vars

\* the handler has just returned early: stop() has cleared running and the watch
\* handle it is closing still delivers
C37_Witness ==
  /\ returned = "notification ignored"
  /\ ~running
  /\ AnyOpen

\* the watches that are open and that no stop() is closing
LiveHandles == {h \in openHandles : stopCalls[h] = 0}

\* C38: under any interleaving of start() and stop() calls, also with calls that
\* land while a start() is awaiting the directory creation, at most one directory
\* watch is open at any time, and no start() assigns a new watch to `watcher`
\* while the watch it refers to is still open (a watch that a stop() is closing
\* is not counted).
C38_OneWatchNoLeak ==
  /\ [](Cardinality(LiveHandles) <= 1)
  /\ [][(watcher' # watcher /\ watcher' # 0) => watcher \notin LiveHandles]_vars

\* the step in which the onEvent call of batch s throws
ObserverThrows(s) == batches[s].phase = "dispatch" /\ caught' = "onEvent"

\* C39: when the observer callback throws on a result, the batch goes on: if
\* captured candidates are left it dispatches one of them next, otherwise it ends
\* and releases the processing flag; the order of the dispatches is the
\* priority order followed by the skipped files, no captured id is dispatched
\* twice in the batch, and a batch that ends has dispatched every captured id.
C39_ObserverThrowContained ==
  /\ [][\A s \in Slots :
          ObserverThrows(s) =>
            LET b == batches[s]
                left == b.pendingIds \ DispatchedIds(b)
            IN /\ lastResult'.eventId = EventIdOf(b.cur.path)
               /\ IF left # {}
                    THEN /\ batches'[s].phase = "dispatch"
                         /\ EventIdOf(batches'[s].cur.path) \in left
                         /\ processing'
                    ELSE /\ batches'[s].phase = "idle"
                         /\ ~processing']_vars
  /\ [][\A s \in Slots :
          (batches[s].phase = "dispatch" /\ batches'[s].phase = "idle") =>
            /\ ~processing'
            /\ \A id \in batches[s].pendingIds : TimesDispatched(batches[s], id) = 1]_vars
  /\ [](\A s \in Slots :
          LET o == BatchOrder(batches[s]) IN
            /\ \A i, j \in 1..Len(o) :
                 /\ (i < j /\ o[i].valid /\ o[j].valid) =>
                      \/ o[i].rank > o[j].rank
                      \/ o[i].rank = o[j].rank /\ o[i].createdAtMs <= o[j].createdAtMs
                 /\ (i < j /\ o[i].pass = "reconcile") => o[j].pass = "reconcile"
                 /\ (i # j) => o[i].path # o[j].path)

\* the observer threw on the result of the second dispatch of a batch and the
\* batch is at its third
C39_Witness ==
  \E s \in Slots :
    /\ caught = "onEvent"
    /\ batches[s].phase = "dispatch"
    /\ Len(BatchOrder(batches[s])) = 3
    /\ lastResult.eventId = EventIdOf(BatchOrder(batches[s])[2].path)

====
